---------------------------- MODULE Spec2Model ----------------------------
(***************************************************************************)
(* A model of the RPC reactor of src/yb/rpc/reactor.cc: the task queue     *)
(* shared with producer threads, the outbound call pump, the connection    *)
(* tables, the delayed tasks, the idle scanner and the shutdown sequence.  *)
(*                                                                         *)
(* Threads.  The reactor thread runs the handlers of the event loop        *)
(* (AsyncHandler, TimerHandler, the timers of the delayed tasks).  Every   *)
(* call of a public entry point is a thread of its own, so that all        *)
(* interleavings of any number of producer threads are covered; a thread   *)
(* takes one step per critical section and one per callback it invokes.    *)
(***************************************************************************)
EXTENDS Naturals, Sequences, FiniteSets, TLC

\* ------------------------------------------------------------------ bounds
NumCalls == 2
NumShutdownCallers == 2
NumDelayedTasks == 1
NumAborters == 2
NumInboundSockets == 1
NumFunctionTasks == 2
MaxTime == 2
\* FLAGS_num_connections_to_server and the builder's connection_keepalive_time
NumConnectionsToServer == 2
KeepAlive == 1

Calls == 1..NumCalls
ShutdownCallers == 1..NumShutdownCallers
DelayedTasks == 1..NumDelayedTasks
Aborters == 1..NumAborters
InboundSockets == 1..NumInboundSockets
\* The threads calling RunOnReactorThread, one RunFunctionTask each.
FunctionTasks == 1..NumFunctionTasks

\* ------------------------------------------------------------ data model
\* ConnectionId: (remote endpoint, user credentials, index).  One remote and
\* one set of credentials are modelled; the index ranges over [0, N).
Remote == "remote"
Credentials == "creds"
ConnectionId(idx) == [remote |-> Remote, creds |-> Credentials, idx |-> idx]
ConnectionIds == {ConnectionId(i) : i \in 0..(NumConnectionsToServer - 1)}

\* A null ConnectionPtr.  Connection objects are numbered in creation order,
\* which is also the order std::sort puts their pointers in.
NullConn == 0

\* The tasks handed to ScheduleReactorTask.
FlushTask == [kind |-> "flush", id |-> 0]
DelayedTask(d) == [kind |-> "delayed", id |-> d]
RegisterTask(s) == [kind |-> "register", id |-> s]
\* The functor that calls CompleteConnectionNegotiation for connection k; a
\* call makes at most one connection, and so does an inbound socket.
Connections == 1..(NumCalls + NumInboundSockets)
CompleteTask(k) == [kind |-> "complete", id |-> k]
\* The RunFunctionTask of caller r.
FunctionTask(r) == [kind |-> "function", id |-> r]
Tasks == {FlushTask} \cup {DelayedTask(d) : d \in DelayedTasks}
           \cup {RegisterTask(s) : s \in InboundSockets}
           \cup {CompleteTask(k) : k \in Connections}
           \cup {FunctionTask(r) : r \in FunctionTasks}

ShutdownError(aborted) ==
    IF aborted THEN "Aborted: reactor is shutting down"
               ELSE "ServiceUnavailable: reactor is shutting down"

VARIABLES
    \* guarded by pending_tasks_lock_
    closing_, pending_tasks_,
    \* per task, the calls of ScheduleReactorTask that passed it
    submitted,
    \* the ev::async watcher: a send not yet delivered to AsyncHandler
    async_sent,
    \* guarded by outbound_queue_lock_
    outbound_queue_, outbound_queue_stopped_,
    \* reactor thread only
    stopping_, client_conns_, server_conns_, waiting_conns_, scheduled_tasks_,
    async_handler_tasks_, next_task, processing_outbound_queue_,
    processing_connections_, cur_time_, loop_broken,
    \* the connection objects, in creation order
    conns,
    \* the coarse clock
    now,
    \* producer threads: one per QueueOutboundCall, Shutdown,
    \* ScheduleReactorTask(DelayedTask), DelayedTask::Abort, RegisterInboundSocket
    call_pc, call_conn_id, shutdown_pc, delayed_pc, aborter_pc, inbound_pc,
    inbound_conn, function_pc,
    \* DelayedTask fields
    done_, timer_active, func_calls,
    \* what the collaborators observed: per call the outcomes it received, per
    \* task the Run and Abort calls, the WakeThread calls made by Shutdown
    outcomes, task_runs, task_aborts, shutdown_wakes

vars == <<closing_, pending_tasks_, submitted, async_sent, outbound_queue_,
          outbound_queue_stopped_, stopping_, client_conns_, server_conns_,
          waiting_conns_, scheduled_tasks_, async_handler_tasks_, next_task,
          processing_outbound_queue_, processing_connections_, cur_time_,
          loop_broken, conns, now, call_pc, call_conn_id, shutdown_pc,
          delayed_pc, aborter_pc, inbound_pc, inbound_conn, function_pc, done_,
          timer_active, func_calls, outcomes, task_runs, task_aborts,
          shutdown_wakes>>

pendingVars == <<closing_, pending_tasks_, submitted>>
outboundVars == <<outbound_queue_, outbound_queue_stopped_>>
reactorVars == <<stopping_, client_conns_, server_conns_, waiting_conns_,
                 scheduled_tasks_, async_handler_tasks_, next_task,
                 processing_outbound_queue_, processing_connections_,
                 cur_time_, loop_broken>>
producerVars == <<call_pc, call_conn_id, shutdown_pc, delayed_pc, aborter_pc,
                  inbound_pc, inbound_conn, function_pc>>
delayedVars == <<done_, timer_active, func_calls>>


\* ---------------------------------------------------------------- helpers
Range(s) == {s[i] : i \in 1..Len(s)}

RECURSIVE SeqOfSet(_)
SeqOfSet(S) ==
    IF S = {} THEN <<>>
    ELSE LET m == CHOOSE x \in S : \A y \in S : x <= y
         IN  <<m>> \o SeqOfSet(S \ {m})

\* A Connection object as the reactor sees it.  shutdowns lists the statuses
\* passed to Connection::Shutdown, outbound_queued counts OutboundQueued().
\* negotiation is where the negotiation of the connection stands and
\* neg_status the status it ended with; negotiated is set by
\* MarkNegotiationComplete and EpollRegister; check_failed is set when the
\* CHECK(erased) of DestroyConnection fails.
NewConnection(direction, idx, ready, t) ==
    [direction |-> direction, remote |-> Remote, creds |-> Credentials,
     idx |-> idx, shutdowns |-> <<>>, ready |-> ready, idle |-> TRUE,
     last_activity |-> t, outbound_queued |-> 0, negotiation |-> "none",
     neg_status |-> "", negotiated |-> FALSE, check_failed |-> FALSE]

ConnShutdown(cn, k, status) ==
    [cn EXCEPT ![k].shutdowns = Append(@, status)]

Outcome(kind, status, conn, by) ==
    [kind |-> kind, status |-> status, conn |-> conn, by |-> by,
     after_exit |-> loop_broken]

AbortRecord(by, status) ==
    [by |-> by, status |-> status, after_exit |-> loop_broken]

Init ==
    /\ closing_ = FALSE
    /\ pending_tasks_ = <<>>
    /\ submitted = [t \in Tasks |-> 0]
    /\ async_sent = FALSE
    /\ outbound_queue_ = <<>>
    /\ outbound_queue_stopped_ = FALSE
    /\ stopping_ = FALSE
    /\ client_conns_ = [id \in ConnectionIds |-> NullConn]
    /\ server_conns_ = <<>>
    /\ waiting_conns_ = <<>>
    /\ scheduled_tasks_ = {}
    /\ async_handler_tasks_ = <<>>
    /\ next_task = 0
    /\ processing_outbound_queue_ = <<>>
    /\ processing_connections_ = <<>>
    /\ cur_time_ = 0
    /\ loop_broken = FALSE
    /\ conns = <<>>
    /\ now = 0
    /\ call_pc = [c \in Calls |-> "new"]
    /\ call_conn_id = [c \in Calls |-> ConnectionId(0)]
    /\ shutdown_pc = [t \in ShutdownCallers |-> "new"]
    /\ delayed_pc = [d \in DelayedTasks |-> "new"]
    /\ aborter_pc = [a \in Aborters |-> [pc |-> "new", task |-> 0]]
    /\ inbound_pc = [s \in InboundSockets |-> "new"]
    /\ inbound_conn = [s \in InboundSockets |-> NullConn]
    /\ function_pc = [r \in FunctionTasks |-> "new"]
    /\ done_ = [d \in DelayedTasks |-> FALSE]
    /\ timer_active = [d \in DelayedTasks |-> FALSE]
    /\ func_calls = [d \in DelayedTasks |-> <<>>]
    /\ outcomes = [c \in Calls |-> <<>>]
    /\ task_runs = [t \in Tasks |-> 0]
    /\ task_aborts = [t \in Tasks |-> <<>>]
    /\ shutdown_wakes = 0

\* ------------------------------------------------- the task queue (producers)
\* A WakeThread that sends nothing.
WakeThreadLost == UNCHANGED async_sent

\* Reactor::WakeThread: async_.send().
WakeThread == async_sent' = TRUE

\* A ScheduleReactorTask that pushes at the front of pending_tasks_.
ScheduleReactorTaskFront(task, accepted) ==
    /\ accepted = ~closing_
    /\ pending_tasks_' = IF accepted THEN <<task>> \o pending_tasks_
                                     ELSE pending_tasks_
    /\ submitted' = [submitted EXCEPT ![task] = @ + 1]
    /\ UNCHANGED closing_

\* A ScheduleReactorTask that does not test closing_.
ScheduleReactorTaskOpen(task, accepted) ==
    /\ accepted = TRUE
    /\ pending_tasks_' = Append(pending_tasks_, task)
    /\ submitted' = [submitted EXCEPT ![task] = @ + 1]
    /\ UNCHANGED closing_

\* The critical section of Reactor::ScheduleReactorTask: the task is pushed
\* unless closing_; accepted tells the caller which branch was taken.
ScheduleReactorTask(task, accepted) ==
    /\ accepted = ~closing_
    /\ pending_tasks_' = IF accepted THEN Append(pending_tasks_, task)
                                     ELSE pending_tasks_
    /\ submitted' = [submitted EXCEPT ![task] = @ + 1]
    /\ UNCHANGED closing_

\* A MarkAsDone that does not test done_: every caller wins.
MarkAsDoneAlways(d, won) ==
    /\ won = TRUE
    /\ done_' = [done_ EXCEPT ![d] = TRUE]

\* DelayedTask::MarkAsDone: test and set of done_ under the task's lock.
MarkAsDone(d, won) ==
    /\ won = ~done_[d]
    /\ done_' = [done_ EXCEPT ![d] = TRUE]

\* A Shutdown that does not test closing_.
ShutdownUnchecked(t) ==
    /\ shutdown_pc[t] = "new"
    /\ closing_' = TRUE
    /\ shutdown_pc' = [shutdown_pc EXCEPT ![t] = "wake"]
    /\ UNCHANGED <<pending_tasks_, submitted, async_sent, outboundVars,
                   reactorVars, conns, now, call_pc, call_conn_id, delayed_pc,
                   aborter_pc, inbound_pc, inbound_conn, function_pc, delayedVars, outcomes,
                   task_runs, task_aborts, shutdown_wakes>>

\* Reactor::Shutdown, the critical section.
Shutdown(t) ==
    /\ shutdown_pc[t] = "new"
    /\ IF closing_
         THEN /\ shutdown_pc' = [shutdown_pc EXCEPT ![t] = "done"]
              /\ UNCHANGED closing_
         ELSE /\ closing_' = TRUE
              /\ shutdown_pc' = [shutdown_pc EXCEPT ![t] = "wake"]
    /\ UNCHANGED <<pending_tasks_, submitted, async_sent, outboundVars,
                   reactorVars, conns, now, call_pc, call_conn_id, delayed_pc, aborter_pc,
                   inbound_pc, inbound_conn, function_pc, delayedVars, outcomes, task_runs,
                   task_aborts, shutdown_wakes>>

\* Reactor::Shutdown, after the lock is released: WakeThread().
ShutdownWake(t) ==
    /\ shutdown_pc[t] = "wake"
    /\ WakeThread
    /\ shutdown_wakes' = shutdown_wakes + 1
    /\ shutdown_pc' = [shutdown_pc EXCEPT ![t] = "done"]
    /\ UNCHANGED <<pendingVars, outboundVars, reactorVars, conns, now, call_pc,
                   call_conn_id, delayed_pc, aborter_pc, inbound_pc,
                   inbound_conn, function_pc, delayedVars, outcomes, task_runs, task_aborts>>

\* ------------------------------------------------------- QueueOutboundCall
\* A QueueOutboundCall that schedules the flush task after every push.
QueueOutboundCallAlwaysSchedule(c, id) ==
    /\ call_pc[c] = "new"
    /\ call_conn_id' = [call_conn_id EXCEPT ![c] = id]
    /\ IF ~outbound_queue_stopped_
         THEN /\ outbound_queue_' = Append(outbound_queue_, c)
              /\ call_pc' = [call_pc EXCEPT ![c] = "schedule"]
         ELSE /\ call_pc' = [call_pc EXCEPT ![c] = "closing"]
              /\ UNCHANGED outbound_queue_
    /\ UNCHANGED <<pendingVars, async_sent, outbound_queue_stopped_, reactorVars,
                   conns, now, shutdown_pc, delayed_pc, aborter_pc, inbound_pc,
                   inbound_conn, function_pc, delayedVars, outcomes, task_runs, task_aborts,
                   shutdown_wakes>>

\* A QueueOutboundCall that does not test outbound_queue_stopped_.
QueueOutboundCallUnstopped(c, id) ==
    /\ call_pc[c] = "new"
    /\ call_conn_id' = [call_conn_id EXCEPT ![c] = id]
    /\ outbound_queue_' = Append(outbound_queue_, c)
    /\ call_pc' = [call_pc EXCEPT ![c] =
                     IF outbound_queue_ = <<>> THEN "schedule" ELSE "done"]
    /\ UNCHANGED <<pendingVars, async_sent, outbound_queue_stopped_, reactorVars,
                   conns, now, shutdown_pc, delayed_pc, aborter_pc, inbound_pc,
                   inbound_conn, function_pc, delayedVars, outcomes, task_runs, task_aborts,
                   shutdown_wakes>>

\* The critical section of Reactor::QueueOutboundCall for a call to conn id.
QueueOutboundCall(c, id) ==
    /\ call_pc[c] = "new"
    /\ call_conn_id' = [call_conn_id EXCEPT ![c] = id]
    /\ IF ~outbound_queue_stopped_
         THEN /\ outbound_queue_' = Append(outbound_queue_, c)
              /\ call_pc' = [call_pc EXCEPT ![c] =
                               IF outbound_queue_ = <<>> THEN "schedule" ELSE "done"]
         ELSE /\ call_pc' = [call_pc EXCEPT ![c] = "closing"]
              /\ UNCHANGED outbound_queue_
    /\ UNCHANGED <<pendingVars, async_sent, outbound_queue_stopped_, reactorVars,
                   conns, now, shutdown_pc, delayed_pc, aborter_pc, inbound_pc,
                   inbound_conn, function_pc, delayedVars, outcomes, task_runs, task_aborts,
                   shutdown_wakes>>

\* A refusal that queues the call behind the stopped flag instead of failing it.
QueueOutboundCallClosingQueued(c) ==
    /\ call_pc[c] = "closing"
    /\ outbound_queue_' = Append(outbound_queue_, c)
    /\ call_pc' = [call_pc EXCEPT ![c] = "done"]
    /\ UNCHANGED <<pendingVars, async_sent, outbound_queue_stopped_, reactorVars,
                   conns, now, call_conn_id, shutdown_pc, delayed_pc, aborter_pc,
                   inbound_pc, inbound_conn, function_pc, delayedVars, outcomes, task_runs,
                   task_aborts, shutdown_wakes>>

\* if (closing) { call->Transferred(ShutdownError(true)); return; }
QueueOutboundCallClosing(c) ==
    /\ call_pc[c] = "closing"
    /\ outcomes' = [outcomes EXCEPT ![c] =
          Append(@, Outcome("Transferred", ShutdownError(TRUE), NullConn,
                            "QueueOutboundCall"))]
    /\ call_pc' = [call_pc EXCEPT ![c] = "done"]
    /\ UNCHANGED <<pendingVars, async_sent, outboundVars, reactorVars, conns, now,
                   call_conn_id, shutdown_pc, delayed_pc, aborter_pc, inbound_pc,
                   inbound_conn, function_pc, delayedVars, task_runs, task_aborts,
                   shutdown_wakes>>

\* if (was_empty) ScheduleReactorTask(process_outbound_queue_task_): the lock.
QueueOutboundCallSchedule(c) ==
    /\ call_pc[c] = "schedule"
    /\ \E accepted \in BOOLEAN :
          /\ ScheduleReactorTask(FlushTask, accepted)
          /\ call_pc' = [call_pc EXCEPT ![c] =
                           IF accepted THEN "wake" ELSE "sched_abort"]
    /\ UNCHANGED <<async_sent, outboundVars, reactorVars, conns, now,
                   call_conn_id, shutdown_pc, delayed_pc, aborter_pc, inbound_pc,
                   inbound_conn, function_pc, delayedVars, outcomes, task_runs, task_aborts,
                   shutdown_wakes>>

\* ScheduleReactorTask refused the flush task: task->Abort(ShutdownError(false)).
QueueOutboundCallAbort(c) ==
    /\ call_pc[c] = "sched_abort"
    /\ task_aborts' = [task_aborts EXCEPT ![FlushTask] =
          Append(@, AbortRecord("ScheduleReactorTask", ShutdownError(FALSE)))]
    /\ call_pc' = [call_pc EXCEPT ![c] = "done"]
    /\ UNCHANGED <<pendingVars, async_sent, outboundVars, reactorVars, conns, now,
                   call_conn_id, shutdown_pc, delayed_pc, aborter_pc, inbound_pc,
                   inbound_conn, function_pc, delayedVars, outcomes, task_runs,
                   shutdown_wakes>>

\* ScheduleReactorTask pushed the flush task: WakeThread().
QueueOutboundCallWake(c) ==
    /\ call_pc[c] = "wake"
    /\ WakeThread
    /\ call_pc' = [call_pc EXCEPT ![c] = "done"]
    /\ UNCHANGED <<pendingVars, outboundVars, reactorVars, conns, now,
                   call_conn_id, shutdown_pc, delayed_pc, aborter_pc, inbound_pc,
                   inbound_conn, function_pc, delayedVars, outcomes, task_runs, task_aborts,
                   shutdown_wakes>>


\* ------------------------------------------------------ RunOnReactorThread
\* RunFunctionTask: Run and Abort each store status_ and count latch_ down, so
\* the latch of the task of caller r is open once either was called, and
\* status_ is what the call stored: the status of the function, or the status
\* passed to Abort.
latch_(r) ==
    IF task_runs[FunctionTask(r)] + Len(task_aborts[FunctionTask(r)]) > 0
      THEN 0 ELSE 1

status_(r) ==
    LET aborts == task_aborts[FunctionTask(r)]
    IN  IF aborts # <<>> THEN aborts[Len(aborts)].status
        ELSE IF task_runs[FunctionTask(r)] > 0 THEN "function"
        ELSE ""

\* Reactor::RunOnReactorThread (GetMetrics, DumpRunningRpcs): the critical
\* section of ScheduleReactorTask(task).
RunOnReactorThread(r) ==
    /\ function_pc[r] = "new"
    /\ \E accepted \in BOOLEAN :
          /\ ScheduleReactorTask(FunctionTask(r), accepted)
          /\ function_pc' = [function_pc EXCEPT ![r] =
                               IF accepted THEN "wake" ELSE "sched_abort"]
    /\ UNCHANGED <<async_sent, outboundVars, reactorVars, conns, now, call_pc,
                   call_conn_id, shutdown_pc, delayed_pc, aborter_pc,
                   inbound_pc, inbound_conn, delayedVars, outcomes, task_runs,
                   task_aborts, shutdown_wakes>>

\* ScheduleReactorTask refused the task: task->Abort(ShutdownError(false)).
RunOnReactorThreadAbort(r) ==
    /\ function_pc[r] = "sched_abort"
    /\ task_aborts' = [task_aborts EXCEPT ![FunctionTask(r)] =
          Append(@, AbortRecord("ScheduleReactorTask", ShutdownError(FALSE)))]
    /\ function_pc' = [function_pc EXCEPT ![r] = "wait"]
    /\ UNCHANGED <<pendingVars, async_sent, outboundVars, reactorVars, conns,
                   now, call_pc, call_conn_id, shutdown_pc, delayed_pc,
                   aborter_pc, inbound_pc, inbound_conn, delayedVars, outcomes,
                   task_runs, shutdown_wakes>>

\* ScheduleReactorTask pushed the task: WakeThread().
RunOnReactorThreadWake(r) ==
    /\ function_pc[r] = "wake"
    /\ WakeThread
    /\ function_pc' = [function_pc EXCEPT ![r] = "wait"]
    /\ UNCHANGED <<pendingVars, outboundVars, reactorVars, conns, now, call_pc,
                   call_conn_id, shutdown_pc, delayed_pc, aborter_pc,
                   inbound_pc, inbound_conn, delayedVars, outcomes, task_runs,
                   task_aborts, shutdown_wakes>>

\* RunFunctionTask::Wait: latch_.Wait() returns once the latch is open, and
\* RunOnReactorThread returns status_.
Wait(r) ==
    /\ function_pc[r] = "wait"
    /\ latch_(r) = 0
    /\ function_pc' = [function_pc EXCEPT ![r] = "done"]
    /\ UNCHANGED <<pendingVars, async_sent, outboundVars, reactorVars, conns,
                   now, call_pc, call_conn_id, shutdown_pc, delayed_pc,
                   aborter_pc, inbound_pc, inbound_conn, delayedVars, outcomes,
                   task_runs, task_aborts, shutdown_wakes>>

\* RunFunctionTask::Run on the reactor thread: the function reads the
\* connection tables and changes nothing.
RunFunctionTask ==
    UNCHANGED <<pendingVars, async_sent, outboundVars, stopping_, client_conns_,
                server_conns_, waiting_conns_, scheduled_tasks_,
                processing_outbound_queue_, processing_connections_, cur_time_,
                loop_broken, conns, now, producerVars, delayedVars, outcomes,
                task_aborts, shutdown_wakes>>


\* ----------------------------------------------- scheduling a DelayedTask
\* ScheduleReactorTask(delayed task d): the critical section.
ScheduleDelayedTask(d) ==
    /\ delayed_pc[d] = "new"
    /\ \E accepted \in BOOLEAN :
          /\ ScheduleReactorTask(DelayedTask(d), accepted)
          /\ delayed_pc' = [delayed_pc EXCEPT ![d] =
                              IF accepted THEN "wake" ELSE "sched_abort"]
    /\ UNCHANGED <<async_sent, outboundVars, reactorVars, conns, now, call_pc,
                   call_conn_id, shutdown_pc, aborter_pc, inbound_pc,
                   inbound_conn, function_pc, delayedVars, outcomes, task_runs, task_aborts,
                   shutdown_wakes>>

\* The refused task's Abort(ShutdownError(false)): DelayedTask::AbortTask up
\* to the return of MarkAsDone.
ScheduleDelayedTaskAbort(d) ==
    /\ delayed_pc[d] = "sched_abort"
    /\ \E won \in BOOLEAN :
          /\ MarkAsDone(d, won)
          /\ delayed_pc' = [delayed_pc EXCEPT ![d] =
                              IF won THEN "abort_func" ELSE "done"]
    /\ task_aborts' = [task_aborts EXCEPT ![DelayedTask(d)] =
          Append(@, AbortRecord("ScheduleReactorTask", ShutdownError(FALSE)))]
    /\ UNCHANGED <<pendingVars, async_sent, outboundVars, reactorVars, conns, now,
                   call_pc, call_conn_id, shutdown_pc, aborter_pc, inbound_pc,
                   inbound_conn, function_pc, timer_active, func_calls, outcomes, task_runs,
                   shutdown_wakes>>

\* DelayedTask::AbortTask after MarkAsDone returned true, on a thread that is
\* not the reactor's: timer_.stop(); func_(abort_status).  Stopping a watcher
\* of a loop that another thread is running is a data race: the timer is
\* stopped or stays armed.
AbortTaskFunc(d, status) ==
    /\ \E armed \in {FALSE, timer_active[d]} :
          timer_active' = [timer_active EXCEPT ![d] = armed]
    /\ func_calls' = [func_calls EXCEPT ![d] = Append(@, status)]
    /\ UNCHANGED done_

ScheduleDelayedTaskFunc(d) ==
    /\ delayed_pc[d] = "abort_func"
    /\ AbortTaskFunc(d, ShutdownError(FALSE))
    /\ delayed_pc' = [delayed_pc EXCEPT ![d] = "done"]
    /\ UNCHANGED <<pendingVars, async_sent, outboundVars, reactorVars, conns, now,
                   call_pc, call_conn_id, shutdown_pc, aborter_pc, inbound_pc,
                   inbound_conn, function_pc, outcomes, task_runs, task_aborts,
                   shutdown_wakes>>

ScheduleDelayedTaskWake(d) ==
    /\ delayed_pc[d] = "wake"
    /\ WakeThread
    /\ delayed_pc' = [delayed_pc EXCEPT ![d] = "done"]
    /\ UNCHANGED <<pendingVars, outboundVars, reactorVars, conns, now, call_pc,
                   call_conn_id, shutdown_pc, aborter_pc, inbound_pc,
                   inbound_conn, function_pc, delayedVars, outcomes, task_runs, task_aborts,
                   shutdown_wakes>>

\* DelayedTask::Abort(Cancelled) called by a thread that is not the reactor's,
\* up to the return of MarkAsDone.
DelayedTaskAbort(a, d) ==
    /\ aborter_pc[a].pc = "new"
    /\ \E won \in BOOLEAN :
          /\ MarkAsDone(d, won)
          /\ aborter_pc' = [aborter_pc EXCEPT ![a] =
                [pc |-> IF won THEN "abort_func" ELSE "done", task |-> d]]
    /\ task_aborts' = [task_aborts EXCEPT ![DelayedTask(d)] =
          Append(@, AbortRecord("caller", "Cancelled"))]
    /\ UNCHANGED <<pendingVars, async_sent, outboundVars, reactorVars, conns, now,
                   call_pc, call_conn_id, shutdown_pc, delayed_pc, inbound_pc,
                   inbound_conn, function_pc, timer_active, func_calls, outcomes, task_runs,
                   shutdown_wakes>>

DelayedTaskAbortFunc(a) ==
    /\ aborter_pc[a].pc = "abort_func"
    /\ AbortTaskFunc(aborter_pc[a].task, "Cancelled")
    /\ aborter_pc' = [aborter_pc EXCEPT ![a].pc = "done"]
    /\ UNCHANGED <<pendingVars, async_sent, outboundVars, reactorVars, conns, now,
                   call_pc, call_conn_id, shutdown_pc, delayed_pc, inbound_pc,
                   inbound_conn, function_pc, outcomes, task_runs, task_aborts,
                   shutdown_wakes>>

\* --------------------------------------------------- RegisterInboundSocket
\* MakeNewConnection(SERVER) and the critical section of ScheduleReactorFunctor.
\* ready is what the new connection's context answers to ReadyToStop().
RegisterInboundSocket(s, ready) ==
    /\ inbound_pc[s] = "new"
    /\ conns' = Append(conns, NewConnection("SERVER", 0, ready, now))
    /\ inbound_conn' = [inbound_conn EXCEPT ![s] = Len(conns) + 1]
    /\ \E accepted \in BOOLEAN :
          /\ ScheduleReactorTask(RegisterTask(s), accepted)
          /\ inbound_pc' = [inbound_pc EXCEPT ![s] =
                              IF accepted THEN "wake" ELSE "sched_abort"]
    /\ UNCHANGED <<async_sent, outboundVars, reactorVars, now, call_pc,
                   call_conn_id, shutdown_pc, delayed_pc, aborter_pc,
                   function_pc, delayedVars, outcomes, task_runs, task_aborts,
                   shutdown_wakes>>

RegisterInboundSocketAbort(s) ==
    /\ inbound_pc[s] = "sched_abort"
    /\ task_aborts' = [task_aborts EXCEPT ![RegisterTask(s)] =
          Append(@, AbortRecord("ScheduleReactorTask", ShutdownError(FALSE)))]
    /\ inbound_pc' = [inbound_pc EXCEPT ![s] = "done"]
    /\ UNCHANGED <<pendingVars, async_sent, outboundVars, reactorVars, conns, now,
                   call_pc, call_conn_id, shutdown_pc, delayed_pc, aborter_pc,
                   inbound_conn, function_pc, delayedVars, outcomes, task_runs,
                   shutdown_wakes>>

RegisterInboundSocketWake(s) ==
    /\ inbound_pc[s] = "wake"
    /\ WakeThread
    /\ inbound_pc' = [inbound_pc EXCEPT ![s] = "done"]
    /\ UNCHANGED <<pendingVars, outboundVars, reactorVars, conns, now, call_pc,
                   call_conn_id, shutdown_pc, delayed_pc, aborter_pc,
                   inbound_conn, function_pc, delayedVars, outcomes, task_runs, task_aborts,
                   shutdown_wakes>>


\* ------------------------------------------------ connections (reactor thread)
\* What the operating system and the negotiation pool answer while a client
\* connection is started: socket creation, connect(), SubmitClosure.
ConnectEnvs ==
    { [socket |-> "OK", connect |-> "OK", submit |-> "OK"],
      [socket |-> "OK", connect |-> "EINPROGRESS", submit |-> "OK"],
      [socket |-> "SocketError", connect |-> "OK", submit |-> "OK"],
      [socket |-> "OK", connect |-> "ConnectError", submit |-> "OK"],
      [socket |-> "OK", connect |-> "OK", submit |-> "IllegalState"],
      [socket |-> "OK", connect |-> "OK", submit |-> "RuntimeError"] }
SubmitResults == {"OK", "IllegalState", "RuntimeError"}

\* Reactor::StartConnect: a temporary socket error means connect in progress.
StartConnect(connect) ==
    IF connect \in {"OK", "EINPROGRESS"} THEN "OK" ELSE connect

\* The status FindOrStartConnection returns once the id was not found.
StartStatus(e) ==
    IF e.socket # "OK" THEN e.socket
    ELSE IF StartConnect(e.connect) # "OK" THEN StartConnect(e.connect)
    ELSE IF e.submit = "IllegalState"
         THEN "ServiceUnavailable: Client RPC Messenger shutting down"
    ELSE IF e.submit # "OK"
         THEN "Unable to start connection negotiation thread: " \o e.submit
    ELSE "OK"

\* Reactor::StartConnectionNegotiation on the objects cn: when SubmitClosure
\* took the closure, the negotiation of connection k runs in the pool.
StartConnectionNegotiation(cn, k, submit) ==
    IF submit = "OK" THEN [cn EXCEPT ![k].negotiation = "running"] ELSE cn

\* A FindOrStartConnection that inserts the new connection into client_conns_
\* before it submits the negotiation, and leaves it there on failure.
FindOrStartConnectionEmplaceFirst(id, e, st) ==
    IF st.cc[id] # NullConn
      THEN [status |-> "OK", conn |-> st.cc[id], cc |-> st.cc, cn |-> st.cn]
    ELSE IF e.socket # "OK" \/ StartConnect(e.connect) # "OK"
      THEN [status |-> StartStatus(e), conn |-> NullConn, cc |-> st.cc,
            cn |-> st.cn]
    ELSE LET k == Len(st.cn) + 1
         IN  [status |-> StartStatus(e),
              conn |-> IF StartStatus(e) = "OK" THEN k ELSE NullConn,
              cc |-> [st.cc EXCEPT ![id] = k],
              cn |-> StartConnectionNegotiation(
                        Append(st.cn, NewConnection("CLIENT", id.idx, FALSE, now)),
                        k, e.submit)]

\* A FindOrStartConnection that does not insert the new connection into
\* client_conns_.
FindOrStartConnectionNoEmplace(id, e, st) ==
    IF st.cc[id] # NullConn
      THEN [status |-> "OK", conn |-> st.cc[id], cc |-> st.cc, cn |-> st.cn]
    ELSE IF StartStatus(e) # "OK"
      THEN [status |-> StartStatus(e), conn |-> NullConn, cc |-> st.cc,
            cn |-> st.cn]
    ELSE LET k == Len(st.cn) + 1
         IN  [status |-> "OK", conn |-> k, cc |-> st.cc,
              cn |-> StartConnectionNegotiation(
                        Append(st.cn, NewConnection("CLIENT", id.idx, FALSE, now)),
                        k, e.submit)]

\* A FindOrStartConnection that does not look the id up in client_conns_.
FindOrStartConnectionNoFind(id, e, st) ==
    IF StartStatus(e) # "OK"
      THEN [status |-> StartStatus(e), conn |-> NullConn, cc |-> st.cc,
            cn |-> st.cn]
    ELSE LET k == Len(st.cn) + 1
         IN  [status |-> "OK", conn |-> k,
              cc |-> [st.cc EXCEPT ![id] = k],
              cn |-> StartConnectionNegotiation(
                        Append(st.cn, NewConnection("CLIENT", id.idx, FALSE, now)),
                        k, e.submit)]

\* Reactor::FindOrStartConnection on the tables st.cc (client_conns_) and st.cn
\* (the connection objects): the status, the connection and the new tables.
\* The connection made before a negotiation that could not be submitted is
\* destroyed when AssignOutboundCall returns: it does not enter st.cn.
FindOrStartConnection(id, e, st) ==
    IF st.cc[id] # NullConn
      THEN [status |-> "OK", conn |-> st.cc[id], cc |-> st.cc, cn |-> st.cn]
    ELSE IF StartStatus(e) # "OK"
      THEN [status |-> StartStatus(e), conn |-> NullConn, cc |-> st.cc,
            cn |-> st.cn]
    ELSE LET k == Len(st.cn) + 1
         IN  [status |-> "OK", conn |-> k,
              cc |-> [st.cc EXCEPT ![id] = k],
              cn |-> StartConnectionNegotiation(
                        Append(st.cn, NewConnection("CLIENT", id.idx, FALSE, now)),
                        k, e.submit)]

\* Reactor::AssignOutboundCall: st also carries the calls' outcomes (oc) and
\* processing_connections_ (pcs), to which ProcessOutboundQueue pushes the
\* returned pointer.
AssignOutboundCall(call, e, st) ==
    LET r == FindOrStartConnection(call_conn_id[call], e, st)
    IN  IF r.status # "OK"
          THEN [cc |-> r.cc, cn |-> r.cn,
                oc |-> [st.oc EXCEPT ![call] =
                          Append(@, Outcome("SetFailed", r.status, NullConn,
                                            "AssignOutboundCall"))],
                pcs |-> Append(st.pcs, NullConn)]
          ELSE [cc |-> r.cc, cn |-> r.cn,
                oc |-> [st.oc EXCEPT ![call] =
                          Append(@, Outcome("Queued", "OK", r.conn,
                                            "AssignOutboundCall"))],
                pcs |-> Append(st.pcs, r.conn)]

RECURSIVE AssignAll(_, _, _, _)
AssignAll(queue, env, i, st) ==
    IF i > Len(queue) THEN st
    ELSE AssignAll(queue, env, i + 1, AssignOutboundCall(queue[i], env[i], st))

\* std::sort on connection pointers.
SortConnections(s) == SortSeq(s, LAMBDA a, b : a < b)

\* No std::unique: every element is kept.
UniqueNone(s) == s

\* std::unique: of every run of equal neighbours the first is kept.
RECURSIVE Unique(_)
Unique(s) ==
    IF Len(s) <= 1 THEN s
    ELSE IF s[1] = s[2] THEN Unique(Tail(s))
    ELSE <<s[1]>> \o Unique(Tail(s))

\* for (auto& conn : processing_connections_) if (conn) conn->OutboundQueued();
RECURSIVE OutboundQueuedAll(_, _)
OutboundQueuedAll(s, cn) ==
    IF s = <<>> THEN cn
    ELSE OutboundQueuedAll(Tail(s),
            IF s[1] # NullConn
              THEN [cn EXCEPT ![s[1]].outbound_queued = @ + 1]
              ELSE cn)

\* A swap that copies: the queue keeps the calls handed to the reactor.
SwapCopy(queue, processing) == [queue |-> queue, processing |-> queue]

\* outbound_queue_.swap(processing_outbound_queue_), under outbound_queue_lock_.
Swap(queue, processing) == [queue |-> processing, processing |-> queue]

\* Reactor::ProcessOutboundQueue, the Run of the flush task.
ProcessOutboundQueue ==
    LET batch == Swap(outbound_queue_, processing_outbound_queue_).processing
    IN  /\ outbound_queue_' =
               Swap(outbound_queue_, processing_outbound_queue_).queue
        /\ IF batch = <<>>
             THEN UNCHANGED <<processing_outbound_queue_, processing_connections_,
                              client_conns_, conns, outcomes>>
             ELSE \E env \in [1..Len(batch) -> ConnectEnvs] :
                    LET st == AssignAll(batch, env, 1,
                                 [cc |-> client_conns_, cn |-> conns,
                                  oc |-> outcomes, pcs |-> processing_connections_])
                        kicked == Unique(SortConnections(st.pcs))
                    IN  /\ client_conns_' = st.cc
                        /\ outcomes' = st.oc
                        /\ conns' = OutboundQueuedAll(kicked, st.cn)
                        /\ processing_outbound_queue_' = <<>>
                        /\ processing_connections_' = <<>>
        /\ UNCHANGED <<pendingVars, async_sent, outbound_queue_stopped_, stopping_,
                       server_conns_, waiting_conns_, scheduled_tasks_, cur_time_,
                       loop_broken, now, producerVars, delayedVars, task_aborts,
                       shutdown_wakes>>

\* Reactor::DestroyConnection on the tables: Shutdown, then unlink.  erased is
\* the flag the CHECK at the end of the CLIENT branch tests.
RECURSIVE EraseFirst(_, _)
EraseFirst(s, k) ==
    IF s = <<>> THEN s
    ELSE IF s[1] = k THEN Tail(s)
    ELSE <<s[1]>> \o EraseFirst(Tail(s), k)

DestroyConnection(k, status, cc, sc, cn) ==
    LET cn1 == ConnShutdown(cn, k, status)
        hit == {id \in ConnectionIds :
                   /\ id.remote = cn[k].remote
                   /\ id.creds = cn[k].creds
                   /\ cc[id] = k}
    IN  IF cn[k].direction = "CLIENT"
          THEN [cc |-> [id \in ConnectionIds |->
                           IF id \in hit THEN NullConn ELSE cc[id]],
                sc |-> sc, cn |-> cn1, erased |-> hit # {}]
          ELSE [cc |-> cc, sc |-> EraseFirst(sc, k), cn |-> cn1,
                erased |-> TRUE]

\* Reactor::RegisterConnection, the Run of the task RegisterInboundSocket
\* posted; submit is the answer of the negotiation pool.
RegisterConnection(k, submit) ==
    LET d == IF submit # "OK"
               THEN DestroyConnection(k, submit, client_conns_, server_conns_, conns)
               ELSE [cc |-> client_conns_, sc |-> server_conns_,
                     cn |-> StartConnectionNegotiation(conns, k, submit),
                     erased |-> TRUE]
    IN  /\ server_conns_' = Append(d.sc, k)
        /\ client_conns_' = d.cc
        /\ conns' = d.cn
        /\ UNCHANGED <<pendingVars, async_sent, outboundVars, stopping_,
                       waiting_conns_, scheduled_tasks_,
                       processing_outbound_queue_, processing_connections_,
                       cur_time_, loop_broken, now, producerVars, delayedVars,
                       outcomes, task_aborts, shutdown_wakes>>

\* What Connection::SetNonBlocking(true) answers.
NonBlockingResults == {"OK", "NetworkError: set non-blocking failed"}

\* A CompleteConnectionNegotiation that admits the connection whatever the
\* status of its negotiation.
CompleteConnectionNegotiationAlways(k, nonblocking) ==
    /\ conns' = [conns EXCEPT ![k].negotiated = TRUE]
    /\ UNCHANGED <<pendingVars, async_sent, outboundVars, stopping_,
                   client_conns_, server_conns_, waiting_conns_,
                   scheduled_tasks_, processing_outbound_queue_,
                   processing_connections_, cur_time_, loop_broken, now,
                   producerVars, delayedVars, outcomes, task_aborts,
                   shutdown_wakes>>

\* Reactor::CompleteConnectionNegotiation(conn, status), the Run of the
\* functor the negotiation posted; status is conns[k].neg_status.
CompleteConnectionNegotiation(k, nonblocking) ==
    LET status == conns[k].neg_status
        failed == IF status # "OK" THEN status ELSE nonblocking
        d == DestroyConnection(k, failed, client_conns_, server_conns_, conns)
    IN  /\ IF failed # "OK"
             THEN /\ client_conns_' = d.cc
                  /\ server_conns_' = d.sc
                  /\ conns' = [d.cn EXCEPT ![k].check_failed = ~d.erased]
             ELSE /\ conns' = [conns EXCEPT ![k].negotiated = TRUE]
                  /\ UNCHANGED <<client_conns_, server_conns_>>
        /\ UNCHANGED <<pendingVars, async_sent, outboundVars, stopping_,
                       waiting_conns_, scheduled_tasks_,
                       processing_outbound_queue_, processing_connections_,
                       cur_time_, loop_broken, now, producerVars, delayedVars,
                       outcomes, task_aborts, shutdown_wakes>>

\* DelayedTask::Run, under the task's lock.
DelayedTaskRun(d) ==
    /\ IF done_[d]
         THEN UNCHANGED <<timer_active, scheduled_tasks_>>
         ELSE /\ timer_active' = [timer_active EXCEPT ![d] = TRUE]
              /\ scheduled_tasks_' = scheduled_tasks_ \cup {d}
    /\ UNCHANGED <<pendingVars, async_sent, outboundVars, stopping_, client_conns_,
                   server_conns_, waiting_conns_, processing_outbound_queue_,
                   processing_connections_, cur_time_, loop_broken, conns, now,
                   producerVars, done_, func_calls, outcomes, task_aborts,
                   shutdown_wakes>>


\* --------------------------------------------------------- ShutdownInternal
\* The connections of the two tables in the order ShutdownInternal visits them.
TableConnections ==
    SelectSeq([i \in 1..NumConnectionsToServer |-> client_conns_[ConnectionId(i - 1)]],
              LAMBDA k : k # NullConn)
      \o server_conns_

\* conn->Shutdown(service_unavailable) on each; ready[k] is what the context of
\* k answers to ReadyToStop() from then on.
RECURSIVE ShutdownAll(_, _, _)
ShutdownAll(s, ready, cn) ==
    IF s = <<>> THEN cn
    ELSE ShutdownAll(Tail(s), ready,
            [ConnShutdown(cn, s[1], ShutdownError(FALSE))
                EXCEPT ![s[1]].ready = ready[s[1]]])

\* task->Abort(aborted) called by the reactor thread: a functor task ignores
\* it, a RunFunctionTask stores the status and opens its latch, a DelayedTask
\* runs AbortTask (MarkAsDone, timer_.stop(), func_).
AbortOnReactor(task, by, st) ==
    LET logged == [st.aborts EXCEPT ![task] =
                      Append(@, AbortRecord(by, ShutdownError(TRUE)))]
        d == task.id
    IN  IF task.kind = "delayed" /\ ~st.done[d]
          THEN [aborts |-> logged,
                done |-> [st.done EXCEPT ![d] = TRUE],
                timer |-> [st.timer EXCEPT ![d] = FALSE],
                funcs |-> [st.funcs EXCEPT ![d] = Append(@, ShutdownError(TRUE))]]
          ELSE [aborts |-> logged, done |-> st.done, timer |-> st.timer,
                funcs |-> st.funcs]

\* A ShutdownInternal that does not abort the tasks of a list.
AbortNone(tasks, by, st) == st

RECURSIVE AbortAll(_, _, _)
AbortAll(tasks, by, st) ==
    IF tasks = <<>> THEN st
    ELSE AbortAll(Tail(tasks), by, AbortOnReactor(tasks[1], by, st))

ScheduledTasksSeq ==
    LET ds == SeqOfSet(scheduled_tasks_)
    IN  [i \in 1..Len(ds) |-> DelayedTask(ds[i])]

\* A ShutdownInternal that drops the calls it swapped out.
TransferredNone(calls, oc) == oc

RECURSIVE TransferredAll(_, _)
TransferredAll(calls, oc) ==
    IF calls = <<>> THEN oc
    ELSE TransferredAll(Tail(calls),
            [oc EXCEPT ![calls[1]] =
                Append(@, Outcome("Transferred", ShutdownError(TRUE), NullConn,
                                  "ShutdownInternal"))])

\* A CheckReadyToStop that removes no connection.
CheckReadyToStopNone(waiting, cn) == waiting

\* A CheckReadyToStop that removes every connection, ready or not.
CheckReadyToStopAll(waiting, cn) == <<>>

\* Reactor::CheckReadyToStop: the waiting list after remove_if; the loop is
\* broken when it is empty.
CheckReadyToStop(waiting, cn) == SelectSeq(waiting, LAMBDA k : ~cn[k].ready)

\* Reactor::ShutdownInternal followed by CheckReadyToStop, as AsyncHandler
\* calls them; drained is async_handler_tasks_ as DrainTaskQueue filled it.
ShutdownInternal(drained) ==
    \E ready \in [Range(TableConnections) -> BOOLEAN] :
      LET cn == ShutdownAll(TableConnections, ready, conns)
          waiting == waiting_conns_
                       \o SelectSeq(TableConnections, LAMBDA k : ~ready[k])
          st0 == [aborts |-> task_aborts, done |-> done_, timer |-> timer_active,
                  funcs |-> func_calls]
          st1 == AbortAll(ScheduledTasksSeq, "scheduled_tasks_", st0)
          st2 == AbortAll(drained, "async_handler_tasks_", st1)
          swapped == Swap(outbound_queue_, processing_outbound_queue_)
      IN  /\ stopping_' = TRUE
          /\ client_conns_' = [id \in ConnectionIds |-> NullConn]
          /\ server_conns_' = <<>>
          /\ conns' = cn
          /\ scheduled_tasks_' = {}
          /\ task_aborts' = st2.aborts
          /\ done_' = st2.done
          /\ timer_active' = st2.timer
          /\ func_calls' = st2.funcs
          /\ outbound_queue_stopped_' = TRUE
          /\ outbound_queue_' = swapped.queue
          /\ outcomes' = TransferredAll(swapped.processing, outcomes)
          /\ processing_outbound_queue_' = <<>>
          /\ waiting_conns_' = CheckReadyToStop(waiting, cn)
          /\ loop_broken' = (CheckReadyToStop(waiting, cn) = <<>>)

\* ------------------------------------------------------------ AsyncHandler
\* Reactor::DrainTaskQueue returns !closing_.
DrainTaskQueue == ~closing_

\* Reactor::AsyncHandler up to the first task->Run, or all of it when the
\* drain reports the reactor closed or finds no task.
AsyncHandler ==
    /\ ~loop_broken
    /\ next_task = 0
    /\ async_sent
    /\ async_sent' = FALSE
    /\ pending_tasks_' = async_handler_tasks_
    /\ UNCHANGED <<closing_, submitted>>
    /\ IF DrainTaskQueue
         THEN /\ IF pending_tasks_ = <<>>
                   THEN UNCHANGED <<async_handler_tasks_, next_task>>
                   ELSE /\ async_handler_tasks_' = pending_tasks_
                        /\ next_task' = 1
              /\ UNCHANGED <<outboundVars, stopping_, client_conns_,
                             server_conns_, waiting_conns_, scheduled_tasks_,
                             processing_outbound_queue_, loop_broken, conns,
                             delayedVars, outcomes, task_aborts>>
         ELSE /\ ShutdownInternal(pending_tasks_)
              /\ async_handler_tasks_' = <<>>
              /\ next_task' = 0
    /\ UNCHANGED <<processing_connections_, cur_time_, now, producerVars,
                   task_runs, shutdown_wakes>>

\* for (const auto &task : async_handler_tasks_) task->Run(this): one task;
\* after the last one the scope exit clears the buffer.
RunTask ==
    /\ ~loop_broken
    /\ next_task > 0
    /\ LET task == async_handler_tasks_[next_task]
       IN  /\ task_runs' = [task_runs EXCEPT ![task] = @ + 1]
           /\ \/ task.kind = "flush" /\ ProcessOutboundQueue
              \/ task.kind = "delayed" /\ DelayedTaskRun(task.id)
              \/ /\ task.kind = "register"
                 /\ \E submit \in SubmitResults :
                       RegisterConnection(inbound_conn[task.id], submit)
              \/ /\ task.kind = "complete"
                 /\ \E nonblocking \in NonBlockingResults :
                       CompleteConnectionNegotiation(task.id, nonblocking)
              \/ task.kind = "function" /\ RunFunctionTask
    /\ IF next_task = Len(async_handler_tasks_)
         THEN async_handler_tasks_' = <<>> /\ next_task' = 0
         ELSE next_task' = next_task + 1 /\ UNCHANGED async_handler_tasks_

\* ------------------------------------------------------------ TimerHandler
\* Reactor::ScanIdleConnections over the list s: the list and the objects after.
IdleFor(conn, t) == IF t >= conn.last_activity THEN t - conn.last_activity ELSE 0

\* A scan that takes a delta equal to the keep-alive time for a timeout.
TimedOutAtKeepAlive(conn, t) == conn.idle /\ IdleFor(conn, t) >= KeepAlive

\* Idle() and connection_delta.MoreThan(connection_keepalive_time_).
TimedOut(conn, t) == conn.idle /\ IdleFor(conn, t) > KeepAlive

RECURSIVE ScanIdleConnections(_, _, _)
ScanIdleConnections(s, t, cn) ==
    IF s = <<>> THEN [sc |-> <<>>, cn |-> cn]
    ELSE IF TimedOut(cn[s[1]], t)
      THEN ScanIdleConnections(Tail(s), t,
              ConnShutdown(cn, s[1], "NetworkError: connection timed out"))
      ELSE LET r == ScanIdleConnections(Tail(s), t, cn)
           IN  [sc |-> <<s[1]>> \o r.sc, cn |-> r.cn]

\* Reactor::TimerHandler; error is EV_ERROR & revents.
TimerHandler(error) ==
    /\ ~loop_broken
    /\ next_task = 0
    /\ IF error
         THEN UNCHANGED <<waiting_conns_, loop_broken, cur_time_, server_conns_,
                          conns>>
         ELSE IF stopping_
           THEN /\ waiting_conns_' = CheckReadyToStop(waiting_conns_, conns)
                /\ loop_broken' = (CheckReadyToStop(waiting_conns_, conns) = <<>>)
                /\ UNCHANGED <<cur_time_, server_conns_, conns>>
           ELSE LET r == ScanIdleConnections(server_conns_, now, conns)
                IN  /\ cur_time_' = now
                    /\ server_conns_' = r.sc
                    /\ conns' = r.cn
                    /\ UNCHANGED <<waiting_conns_, loop_broken>>
    /\ UNCHANGED <<pendingVars, async_sent, outboundVars, stopping_, client_conns_,
                   scheduled_tasks_, async_handler_tasks_, next_task,
                   processing_outbound_queue_, processing_connections_, now,
                   producerVars, delayedVars, outcomes, task_runs, task_aborts,
                   shutdown_wakes>>

\* DelayedTask::TimerHandler, the one-shot timer of task d firing.
DelayedTaskTimerHandler(d, error) ==
    /\ ~loop_broken
    /\ next_task = 0
    /\ timer_active[d]
    /\ timer_active' = [timer_active EXCEPT ![d] = FALSE]
    /\ \E won \in BOOLEAN :
          /\ MarkAsDone(d, won)
          /\ IF won
               THEN /\ scheduled_tasks_' = scheduled_tasks_ \ {d}
                    /\ func_calls' = [func_calls EXCEPT ![d] = Append(@,
                          IF error
                            THEN "Aborted: Delayed task got an error in its timer handler"
                            ELSE "OK")]
               ELSE UNCHANGED <<scheduled_tasks_, func_calls>>
    /\ UNCHANGED <<pendingVars, async_sent, outboundVars, stopping_, client_conns_,
                   server_conns_, waiting_conns_, async_handler_tasks_, next_task,
                   processing_outbound_queue_, processing_connections_,
                   cur_time_, loop_broken, conns, now, producerVars, outcomes,
                   task_runs, task_aborts, shutdown_wakes>>

\* ------------------------------------------------------- negotiation pool
\* What a negotiation ends with.
NegotiationResults == {"OK", "NetworkError: negotiation failed"}

\* The negotiation of connection k finishes in the pool with status and posts
\* the functor that calls CompleteConnectionNegotiation(conn, status): the
\* critical section of ScheduleReactorTask.  A refused functor ignores Abort.
NegotiationFinished(k, status) ==
    /\ conns[k].negotiation = "running"
    /\ \E accepted \in BOOLEAN :
          /\ ScheduleReactorTask(CompleteTask(k), accepted)
          /\ conns' = [conns EXCEPT
                ![k].negotiation = IF accepted THEN "wake" ELSE "refused",
                ![k].neg_status = status]
          /\ task_aborts' = IF accepted THEN task_aborts
                ELSE [task_aborts EXCEPT ![CompleteTask(k)] =
                        Append(@, AbortRecord("ScheduleReactorTask",
                                              ShutdownError(FALSE)))]
    /\ UNCHANGED <<async_sent, outboundVars, reactorVars, now, producerVars,
                   delayedVars, outcomes, task_runs, shutdown_wakes>>

\* ScheduleReactorTask pushed the functor: WakeThread().
NegotiationWake(k) ==
    /\ conns[k].negotiation = "wake"
    /\ WakeThread
    /\ conns' = [conns EXCEPT ![k].negotiation = "posted"]
    /\ UNCHANGED <<pendingVars, outboundVars, reactorVars, now, producerVars,
                   delayedVars, outcomes, task_runs, task_aborts,
                   shutdown_wakes>>

\* ------------------------------------------------------------- environment
\* The coarse clock advances.
Tick ==
    /\ now < MaxTime
    /\ now' = now + 1
    /\ UNCHANGED <<pendingVars, async_sent, outboundVars, reactorVars, conns,
                   producerVars, delayedVars, outcomes, task_runs, task_aborts,
                   shutdown_wakes>>

\* Traffic on a registered server connection: it is idle or busy from now on.
ConnectionActivity(k, idle) ==
    /\ ~loop_broken
    /\ next_task = 0
    /\ k \in Range(server_conns_)
    /\ conns[k].shutdowns = <<>>
    /\ conns' = [conns EXCEPT ![k].idle = idle, ![k].last_activity = now]
    /\ UNCHANGED <<pendingVars, async_sent, outboundVars, reactorVars, now,
                   producerVars, delayedVars, outcomes, task_runs, task_aborts,
                   shutdown_wakes>>

\* The context of a connection that was shut down finishes its calls.
ContextReadyToStop(k) ==
    /\ k \in Range(waiting_conns_)
    /\ ~conns[k].ready
    /\ conns' = [conns EXCEPT ![k].ready = TRUE]
    /\ UNCHANGED <<pendingVars, async_sent, outboundVars, reactorVars, now,
                   producerVars, delayedVars, outcomes, task_runs, task_aborts,
                   shutdown_wakes>>

\* ------------------------------------------------------ locks and callbacks
\* What one thread does to the two reactor locks and to its collaborators
\* while it executes a function of the reactor, in program order.
Acquire(lock) == [op |-> "acquire", arg |-> lock]
Release(lock) == [op |-> "release", arg |-> lock]
Callback(name) == [op |-> "callback", arg |-> name]

\* One callback per element of s.
CallbackEach(name, s) == [i \in 1..Len(s) |-> Callback(name)]

\* A ScheduleReactorTask that calls Abort before it releases the lock.
ScheduleReactorTaskEventsLocked(task) ==
    IF closing_
      THEN <<Acquire("pending_tasks_lock_"), Callback("task->Abort"),
             Release("pending_tasks_lock_")>>
      ELSE <<Acquire("pending_tasks_lock_"), Release("pending_tasks_lock_")>>

\* Reactor::ScheduleReactorTask: l.unlock() precedes task->Abort; the push is
\* inside the scope of the lock and WakeThread after it.
ScheduleReactorTaskEvents(task) ==
    IF closing_
      THEN <<Acquire("pending_tasks_lock_"), Release("pending_tasks_lock_"),
             Callback("task->Abort")>>
      ELSE <<Acquire("pending_tasks_lock_"), Release("pending_tasks_lock_")>>

\* Reactor::QueueOutboundCall.
QueueOutboundCallEvents ==
    <<Acquire("outbound_queue_lock_"), Release("outbound_queue_lock_")>>
      \o (IF outbound_queue_stopped_
            THEN <<Callback("call->Transferred")>>
          ELSE IF outbound_queue_ = <<>>
            THEN ScheduleReactorTaskEvents(FlushTask)
          ELSE <<>>)

\* Reactor::ProcessOutboundQueue: the swap is in the scope of the lock, the
\* calls are assigned after it (SetFailed or conn->QueueOutboundCall each,
\* then OutboundQueued per connection).
ProcessOutboundQueueEvents ==
    <<Acquire("outbound_queue_lock_"), Release("outbound_queue_lock_")>>
      \o CallbackEach("call->SetFailed or conn->QueueOutboundCall", outbound_queue_)
      \o CallbackEach("conn->OutboundQueued", outbound_queue_)

\* Reactor::ShutdownInternal on the tasks AsyncHandler drained.
ShutdownInternalEvents(drained) ==
    CallbackEach("conn->Shutdown", TableConnections)
      \o CallbackEach("task->Abort", ScheduledTasksSeq)
      \o CallbackEach("task->Abort", drained)
      \o <<Acquire("outbound_queue_lock_"), Release("outbound_queue_lock_")>>
      \o CallbackEach("call->Transferred", outbound_queue_)

\* Reactor::AsyncHandler: DrainTaskQueue holds pending_tasks_lock_ for the
\* swap; then the tasks are run, or ShutdownInternal aborts them.
AsyncHandlerEvents ==
    <<Acquire("pending_tasks_lock_"), Release("pending_tasks_lock_")>>
      \o (IF DrainTaskQueue
            THEN CallbackEach("task->Run", pending_tasks_)
            ELSE ShutdownInternalEvents(pending_tasks_))

\* The locks held by the thread after the first n events of ev.
RECURSIVE Held(_, _)
Held(ev, n) ==
    IF n = 0 THEN {}
    ELSE IF ev[n].op = "acquire" THEN Held(ev, n - 1) \cup {ev[n].arg}
    ELSE IF ev[n].op = "release" THEN Held(ev, n - 1) \ {ev[n].arg}
    ELSE Held(ev, n - 1)

\* ---------------------------------------------------------- specification
\* The reactor thread: the handlers the event loop dispatches.
ReactorThread ==
    \/ AsyncHandler
    \/ RunTask
    \/ \E error \in BOOLEAN : TimerHandler(error)

\* The contexts of the connections that were shut down.
ConnectionContexts ==
    \E k \in 1..Len(conns) : ContextReadyToStop(k)

\* Threads calling Reactor::Shutdown.
ShutdownThreads(SC) ==
    \/ \E t \in SC : Shutdown(t)
    \/ \E t \in SC : ShutdownWake(t)

\* Threads calling Reactor::QueueOutboundCall for calls to the ids of Ids.
CallThreads(C, Ids) ==
    \/ \E c \in C, id \in Ids : QueueOutboundCall(c, id)
    \/ \E c \in C : QueueOutboundCallClosing(c)
    \/ \E c \in C : QueueOutboundCallSchedule(c)
    \/ \E c \in C : QueueOutboundCallAbort(c)
    \/ \E c \in C : QueueOutboundCallWake(c)

\* Threads scheduling a DelayedTask, and the timers of these tasks.
DelayedThreads(D) ==
    \/ \E d \in D : ScheduleDelayedTask(d)
    \/ \E d \in D : ScheduleDelayedTaskAbort(d)
    \/ \E d \in D : ScheduleDelayedTaskFunc(d)
    \/ \E d \in D : ScheduleDelayedTaskWake(d)
    \/ \E d \in D, error \in BOOLEAN : DelayedTaskTimerHandler(d, error)

\* Threads calling DelayedTask::Abort.
AbortThreads(A, D) ==
    \/ \E a \in A, d \in D : DelayedTaskAbort(a, d)
    \/ \E a \in A : DelayedTaskAbortFunc(a)

\* Threads calling Reactor::RegisterInboundSocket.
InboundThreads(S) ==
    \/ \E s \in S, ready \in BOOLEAN : RegisterInboundSocket(s, ready)
    \/ \E s \in S : RegisterInboundSocketAbort(s)
    \/ \E s \in S : RegisterInboundSocketWake(s)

\* Threads calling Reactor::RunOnReactorThread.
FunctionThreads(R) ==
    \/ \E r \in R : RunOnReactorThread(r)
    \/ \E r \in R : RunOnReactorThreadAbort(r)
    \/ \E r \in R : RunOnReactorThreadWake(r)
    \/ \E r \in R : Wait(r)

\* The threads of the negotiation pool.
NegotiationThreads ==
    \/ \E k \in 1..Len(conns), status \in NegotiationResults :
          NegotiationFinished(k, status)
    \/ \E k \in 1..Len(conns) : NegotiationWake(k)

\* The clock and the traffic on server connections.
Environment ==
    \/ Tick
    \/ \E k \in 1..Len(conns), idle \in BOOLEAN : ConnectionActivity(k, idle)

\* The whole system.
Next ==
    \/ ReactorThread
    \/ ConnectionContexts
    \/ ShutdownThreads(ShutdownCallers)
    \/ CallThreads(Calls, ConnectionIds)
    \/ DelayedThreads(DelayedTasks)
    \/ AbortThreads(Aborters, DelayedTasks)
    \/ InboundThreads(InboundSockets)
    \/ FunctionThreads(FunctionTasks)
    \/ NegotiationThreads
    \/ Environment

Spec == Init /\ [][Next]_vars

\* The specifications below are Spec with the producers restricted to the
\* threads a group of properties is about; every behaviour of one of them is
\* a behaviour of Spec.  Except in SpecShutdown one thread calls Shutdown: a
\* second call changes nothing (ShutdownIdempotent).
OneShutdownCaller == {CHOOSE t \in ShutdownCallers : TRUE}
OneCall == {CHOOSE c \in Calls : TRUE}
OneDelayedTask == {CHOOSE d \in DelayedTasks : TRUE}
OneInboundSocket == {CHOOSE s \in InboundSockets : TRUE}
OneConnectionId == {ConnectionId(0)}

\* The outbound call pump: threads queueing calls, the reactor, Shutdown.
NextPump ==
    \/ ReactorThread
    \/ ConnectionContexts
    \/ ShutdownThreads(OneShutdownCaller)
    \/ CallThreads(Calls, ConnectionIds)

SpecPump == Init /\ [][NextPump]_vars

\* The pump when the event loop dispatches every handler that is ready and
\* every thread that entered QueueOutboundCall or Shutdown returns from it.
\* Nothing is assumed about when, or whether, these functions are called.
\* The threads are finitely many and each takes finitely many steps, so one
\* fairness condition for all of them lets each of them return.
Dispatch == AsyncHandler \/ RunTask

Return ==
    \/ \E t \in OneShutdownCaller : ShutdownWake(t)
    \/ \E c \in Calls : QueueOutboundCallClosing(c)
    \/ \E c \in Calls : QueueOutboundCallSchedule(c)
    \/ \E c \in Calls : QueueOutboundCallAbort(c)
    \/ \E c \in Calls : QueueOutboundCallWake(c)

FairPump == SpecPump /\ WF_vars(Dispatch) /\ WF_vars(Return)

\* Delayed tasks: threads scheduling and aborting them, the reactor, Shutdown.
NextDelayed ==
    \/ ReactorThread
    \/ ShutdownThreads(OneShutdownCaller)
    \/ DelayedThreads(DelayedTasks)
    \/ AbortThreads(Aborters, DelayedTasks)

SpecDelayed == Init /\ [][NextDelayed]_vars

\* The task queue: threads scheduling delayed tasks and registering inbound
\* sockets, the reactor, Shutdown.
NextTasks ==
    \/ ReactorThread
    \/ ConnectionContexts
    \/ ShutdownThreads(OneShutdownCaller)
    \/ DelayedThreads(DelayedTasks)
    \/ InboundThreads(InboundSockets)

SpecTasks == Init /\ [][NextTasks]_vars

\* The flush task, submitted once per batch of calls, next to a delayed task:
\* threads queueing calls to one connection id and scheduling the task, the
\* reactor, Shutdown.
NextFinalize ==
    \/ ReactorThread
    \/ ConnectionContexts
    \/ ShutdownThreads(OneShutdownCaller)
    \/ CallThreads(Calls, OneConnectionId)
    \/ DelayedThreads(OneDelayedTask)

SpecFinalize == Init /\ [][NextFinalize]_vars

\* Any number of threads calling Shutdown while sockets are registered.
NextShutdown ==
    \/ ReactorThread
    \/ ConnectionContexts
    \/ ShutdownThreads(ShutdownCallers)
    \/ InboundThreads(InboundSockets)

SpecShutdown == Init /\ [][NextShutdown]_vars

\* The teardown: one producer of each kind racing with Shutdown.
NextTeardown ==
    \/ ReactorThread
    \/ ConnectionContexts
    \/ ShutdownThreads(OneShutdownCaller)
    \/ CallThreads(OneCall, ConnectionIds)
    \/ DelayedThreads(OneDelayedTask)
    \/ InboundThreads(OneInboundSocket)

SpecTeardown == Init /\ [][NextTeardown]_vars

\* The idle scanner: inbound sockets, the clock, traffic, the reactor, Shutdown.
NextScan ==
    \/ ReactorThread
    \/ ConnectionContexts
    \/ ShutdownThreads(OneShutdownCaller)
    \/ InboundThreads(InboundSockets)
    \/ Environment

SpecScan == Init /\ [][NextScan]_vars

\* The negotiation of client connections: calls to one connection id, the
\* negotiation pool, the reactor, Shutdown.
NextNegotiation ==
    \/ ReactorThread
    \/ ConnectionContexts
    \/ ShutdownThreads(OneShutdownCaller)
    \/ CallThreads(Calls, OneConnectionId)
    \/ NegotiationThreads

SpecNegotiation == Init /\ [][NextNegotiation]_vars

\* The negotiation handoff for both tables: calls to one connection id and
\* inbound sockets, the negotiation pool, the reactor, Shutdown.
NextHandoff ==
    \/ ReactorThread
    \/ ShutdownThreads(OneShutdownCaller)
    \/ CallThreads(Calls, OneConnectionId)
    \/ InboundThreads(InboundSockets)
    \/ NegotiationThreads

SpecHandoff == Init /\ [][NextHandoff]_vars

\* The stop: a call and an inbound socket in flight when Shutdown is called.
NextStop ==
    \/ ReactorThread
    \/ ConnectionContexts
    \/ ShutdownThreads(OneShutdownCaller)
    \/ CallThreads(OneCall, OneConnectionId)
    \/ InboundThreads(OneInboundSocket)

SpecStop == Init /\ [][NextStop]_vars

\* The stop when the event loop delivers the async wakeups and the ticks of
\* the coarse timer, the thread that entered Shutdown returns from it, and the
\* context of every connection that was shut down becomes ready to stop.
\* Nothing is assumed about the other producers.
FairStop ==
    /\ SpecStop
    /\ WF_vars(Dispatch)
    /\ WF_vars(TimerHandler(FALSE))
    /\ WF_vars(ConnectionContexts)
    /\ WF_vars(\E t \in OneShutdownCaller : ShutdownWake(t))

\* Synchronous callers: threads in RunOnReactorThread, a thread queueing a
\* call, the reactor, Shutdown.
NextSync ==
    \/ ReactorThread
    \/ ShutdownThreads(OneShutdownCaller)
    \/ CallThreads(OneCall, OneConnectionId)
    \/ FunctionThreads(FunctionTasks)

SpecSync == Init /\ [][NextSync]_vars

\* The synchronous callers when the event loop dispatches every handler that
\* is ready and every thread that entered Shutdown, QueueOutboundCall or
\* RunOnReactorThread goes on to its next statement.  Nothing is assumed
\* about when, or whether, these functions are called.
ReturnSync ==
    \/ \E t \in OneShutdownCaller : ShutdownWake(t)
    \/ \E c \in OneCall : QueueOutboundCallClosing(c)
    \/ \E c \in OneCall : QueueOutboundCallSchedule(c)
    \/ \E c \in OneCall : QueueOutboundCallAbort(c)
    \/ \E c \in OneCall : QueueOutboundCallWake(c)
    \/ \E r \in FunctionTasks : RunOnReactorThreadAbort(r)
    \/ \E r \in FunctionTasks : RunOnReactorThreadWake(r)
    \/ \E r \in FunctionTasks : Wait(r)

FairSync == SpecSync /\ WF_vars(Dispatch) /\ WF_vars(ReturnSync)

\* ============================================================== properties
\* ----------------------------------------------------------------------- C1
\* C1: under every interleaving of threads calling QueueOutboundCall, the
\* reactor running ProcessOutboundQueue and a Shutdown, a call receives at
\* most one outcome, and that outcome is SetFailed(status) from
\* AssignOutboundCall, Transferred(Aborted) from QueueOutboundCall or
\* ShutdownInternal, or being queued on one client connection.
CallOutcomeAtMostOnce ==
    \A c \in Calls :
      /\ Len(outcomes[c]) <= 1
      /\ \A i \in 1..Len(outcomes[c]) :
            LET o == outcomes[c][i]
            IN  \/ /\ o.kind = "SetFailed"
                   /\ o.by = "AssignOutboundCall"
                   /\ o.status # "OK"
                   /\ o.conn = NullConn
                \/ /\ o.kind = "Transferred"
                   /\ o.by \in {"QueueOutboundCall", "ShutdownInternal"}
                   /\ o.status = "Aborted: reactor is shutting down"
                   /\ o.conn = NullConn
                \/ /\ o.kind = "Queued"
                   /\ o.by = "AssignOutboundCall"
                   /\ o.conn \in 1..Len(conns)
                   /\ conns[o.conn].direction = "CLIENT"

\* One call was queued on a connection by a flush, another one was swapped
\* out and aborted by ShutdownInternal.
CallsQueuedAndAborted ==
    \E c1, c2 \in Calls :
      /\ Len(outcomes[c1]) = 1 /\ outcomes[c1][1].kind = "Queued"
      /\ Len(outcomes[c2]) = 1 /\ outcomes[c2][1].by = "ShutdownInternal"

\* ----------------------------------------------------------------------- C2
\* C2: when the event loop keeps dispatching and every thread returns from
\* the call it is in, a call that is in outbound_queue_ eventually is out of
\* it with exactly one outcome; this includes the call pushed between
\* Shutdown setting closing_ and ShutdownInternal stopping the queue, whose
\* flush task ScheduleReactorTask refuses.
QueuedCallGetsOutcome ==
    \A c \in Calls :
      (c \in Range(outbound_queue_))
         ~> (c \notin Range(outbound_queue_) /\ Len(outcomes[c]) = 1)

\* The flush task of call c was refused and its Abort is still to come, and
\* ShutdownInternal has already aborted the call.
RefusedFlushCallAborted ==
    \E c \in Calls :
      /\ call_pc[c] = "sched_abort"
      /\ c \notin Range(outbound_queue_)
      /\ Len(outcomes[c]) = 1
      /\ outcomes[c][1].by = "ShutdownInternal"

\* ----------------------------------------------------------------------- C3
\* C3: under every interleaving of DelayedTask::Run, the task's timer, Abort
\* calls from any thread and the shutdown of the reactor, func_ of a delayed
\* task is invoked at most once; it is invoked by the one caller of
\* MarkAsDone that flipped done_, so that once done_ is set and that caller
\* has returned it was invoked exactly once; and when the reactor has exited,
\* done_ is set for every task the reactor accepted.
AbortingDelayedTask(d) ==
    \/ delayed_pc[d] = "abort_func"
    \/ \E a \in Aborters : aborter_pc[a] = [pc |-> "abort_func", task |-> d]

FuncInvokedOnce ==
    \A d \in DelayedTasks :
      /\ Len(func_calls[d]) <= 1
      /\ done_[d] <=> (Len(func_calls[d]) = 1 \/ AbortingDelayedTask(d))
      /\ AbortingDelayedTask(d) => func_calls[d] = <<>>
      /\ Cardinality({a \in Aborters :
                        aborter_pc[a] = [pc |-> "abort_func", task |-> d]})
            + (IF delayed_pc[d] = "abort_func" THEN 1 ELSE 0) <= 1
      /\ (loop_broken /\ delayed_pc[d] \in {"wake", "abort_func", "done"})
            => done_[d]

\* The task was aborted twice before the reactor ran it: the first Abort
\* invoked func_, the second Abort and the Run did nothing.
AbortedTwiceBeforeRun ==
    \E d \in DelayedTasks :
      /\ ~stopping_
      /\ task_runs[DelayedTask(d)] = 1
      /\ d \notin scheduled_tasks_
      /\ Len(task_aborts[DelayedTask(d)]) >= 2
      /\ func_calls[d] = <<"Cancelled">>
      /\ \A a \in Aborters : aborter_pc[a].pc = "done"

\* ----------------------------------------------------------------------- C4
\* C4: once Shutdown was called and the event loop is broken, client_conns_,
\* server_conns_, scheduled_tasks_ and outbound_queue_ are empty, in every
\* state from then on, whatever calls of QueueOutboundCall,
\* ScheduleReactorTask and RegisterInboundSocket follow.
EmptyAfterExit ==
    loop_broken =>
      /\ closing_
      /\ \A id \in ConnectionIds : client_conns_[id] = NullConn
      /\ server_conns_ = <<>>
      /\ scheduled_tasks_ = {}
      /\ outbound_queue_ = <<>>

\* After the loop was broken a call was refused by QueueOutboundCall, and a
\* delayed task and the functor of an inbound socket were refused by
\* ScheduleReactorTask; all three threads have returned.
ProducersRefusedAfterExit ==
    /\ loop_broken
    /\ \E c \in Calls :
          /\ call_pc[c] = "done"
          /\ Len(outcomes[c]) = 1
          /\ outcomes[c][1].by = "QueueOutboundCall"
          /\ outcomes[c][1].after_exit
    /\ \E d \in DelayedTasks :
          /\ delayed_pc[d] = "done"
          /\ Len(task_aborts[DelayedTask(d)]) = 1
          /\ task_aborts[DelayedTask(d)][1].by = "ScheduleReactorTask"
          /\ task_aborts[DelayedTask(d)][1].after_exit
    /\ \E s \in InboundSockets :
          /\ inbound_pc[s] = "done"
          /\ Len(task_aborts[RegisterTask(s)]) = 1
          /\ task_aborts[RegisterTask(s)][1].by = "ScheduleReactorTask"
          /\ task_aborts[RegisterTask(s)][1].after_exit

\* ----------------------------------------------------------------------- C5
\* C5: while closing_ is set, a call of ScheduleReactorTask leaves
\* pending_tasks_ as it is and, before it returns, calls the task's Abort with
\* ServiceUnavailable "reactor is shutting down"; pending_tasks_ never grows
\* once closing_ is set, and a task that was refused is never Run.
RefusedAbort ==
    [by |-> "ScheduleReactorTask",
     status |-> "ServiceUnavailable: reactor is shutting down",
     after_exit |-> loop_broken]

ClosingRefusesTasks ==
    /\ [](\A t \in Tasks :
            \A i \in 1..Len(task_aborts[t]) :
               task_aborts[t][i].by = "ScheduleReactorTask" =>
                 /\ closing_
                 /\ task_aborts[t][i].status =
                       "ServiceUnavailable: reactor is shutting down"
                 /\ submitted[t] = 1 => task_runs[t] = 0)
    /\ [][closing_ => pending_tasks_' \in {pending_tasks_, <<>>}]_vars
    /\ [][\A d \in DelayedTasks :
            /\ (closing_ /\ delayed_pc[d] = "new" /\ delayed_pc'[d] # "new") =>
                  /\ delayed_pc'[d] = "sched_abort"
                  /\ pending_tasks_' = pending_tasks_
            /\ (delayed_pc[d] = "sched_abort" /\ delayed_pc'[d] # "sched_abort")
                  => task_aborts'[DelayedTask(d)] =
                        Append(task_aborts[DelayedTask(d)], RefusedAbort)]_vars
    /\ [][\A s \in InboundSockets :
            /\ (closing_ /\ inbound_pc[s] = "new" /\ inbound_pc'[s] # "new") =>
                  /\ inbound_pc'[s] = "sched_abort"
                  /\ pending_tasks_' = pending_tasks_
            /\ (inbound_pc[s] = "sched_abort" /\ inbound_pc'[s] # "sched_abort")
                  => task_aborts'[RegisterTask(s)] =
                        Append(task_aborts[RegisterTask(s)], RefusedAbort)]_vars

\* closing_ was set while an accepted task was waiting in pending_tasks_;
\* since then another task was refused and aborted, and was not Run.
RefusedWhileClosing ==
    /\ closing_
    /\ pending_tasks_ # <<>>
    /\ \E t \in Tasks :
          /\ submitted[t] = 1
          /\ Len(task_aborts[t]) = 1
          /\ task_aborts[t][1].by = "ScheduleReactorTask"
          /\ task_runs[t] = 0

\* ----------------------------------------------------------------------- C6
\* The finalizations a task received through the queue, and its submissions
\* that still wait for one: in pending_tasks_, in the rest of the batch
\* AsyncHandler is running, or refused with the Abort still to come.
AbortsBy(t, by) ==
    Cardinality({i \in 1..Len(task_aborts[t]) : task_aborts[t][i].by = by})

Waiting(t) ==
    Cardinality({i \in 1..Len(pending_tasks_) : pending_tasks_[i] = t})
      + Cardinality({i \in 1..Len(async_handler_tasks_) :
                        next_task > 0 /\ i >= next_task
                                      /\ async_handler_tasks_[i] = t})

Refusing(t) ==
    Cardinality({c \in Calls : t = FlushTask /\ call_pc[c] = "sched_abort"})
      + Cardinality({d \in DelayedTasks :
                        t = DelayedTask(d) /\ delayed_pc[d] = "sched_abort"})
      + Cardinality({x \in InboundSockets :
                        t = RegisterTask(x) /\ inbound_pc[x] = "sched_abort"})

\* C6 as stated: a task instance is finalized once, by Run or by Abort; no
\* instance receives both a Run and an Abort and none receives either twice.
TaskFinalizedOnce ==
    \A t \in Tasks : task_runs[t] + Len(task_aborts[t]) <= 1

\* C6, as the code has it: every submission of a task to ScheduleReactorTask
\* is finalized once, by one of Abort(ServiceUnavailable) from
\* ScheduleReactorTask, Run from AsyncHandler, or Abort(Aborted) from
\* ShutdownInternal for a task still queued.  Beyond that ShutdownInternal
\* aborts, once, a DelayedTask that was Run and is in scheduled_tasks_; the
\* flush task, submitted again and again, is finalized once per submission.
SubmissionFinalizedOnce ==
    \A t \in Tasks :
      /\ submitted[t] = task_runs[t] + AbortsBy(t, "ScheduleReactorTask")
                          + AbortsBy(t, "async_handler_tasks_")
                          + Waiting(t) + Refusing(t)
      /\ AbortsBy(t, "scheduled_tasks_")
            <= (IF t.kind = "delayed" THEN task_runs[t] ELSE 0)
      /\ t.kind = "delayed" => task_runs[t] <= 1
      /\ Len(task_aborts[t]) = AbortsBy(t, "ScheduleReactorTask")
                                 + AbortsBy(t, "async_handler_tasks_")
                                 + AbortsBy(t, "scheduled_tasks_")
                                 + AbortsBy(t, "caller")

\* The flush task was Run for two submissions, and a delayed task was Run and
\* then aborted by ShutdownInternal from scheduled_tasks_.
RunTwiceAndRunThenAborted ==
    /\ task_runs[FlushTask] = 2
    /\ \E d \in DelayedTasks :
          /\ task_runs[DelayedTask(d)] = 1
          /\ AbortsBy(DelayedTask(d), "scheduled_tasks_") = 1

\* ----------------------------------------------------------------------- C7
\* C7: of any number of concurrent Shutdown calls exactly one finds closing_
\* false, sets it and wakes the reactor; every other call returns without
\* changing any state and without waking the reactor; closing_ never goes
\* back to false.
ShutdownIdempotent ==
    /\ [](Cardinality({t \in ShutdownCallers : shutdown_pc[t] = "wake"})
             + shutdown_wakes = (IF closing_ THEN 1 ELSE 0))
    /\ [][closing_ => closing_']_vars
    /\ [][\A t \in ShutdownCallers :
            (shutdown_pc[t] = "new" /\ shutdown_pc'[t] # "new") =>
               IF closing_
                 THEN /\ shutdown_pc'[t] = "done"
                      /\ UNCHANGED <<pendingVars, async_sent, outboundVars,
                                     reactorVars, conns, now, call_pc,
                                     call_conn_id, delayed_pc, aborter_pc,
                                     inbound_pc, inbound_conn, function_pc, delayedVars,
                                     outcomes, task_runs, task_aborts,
                                     shutdown_wakes>>
                 ELSE /\ shutdown_pc'[t] = "wake"
                      /\ closing_']_vars

\* Every Shutdown call has returned, there were several, one woke the reactor.
ShutdownCalledTwice ==
    /\ Cardinality(ShutdownCallers) >= 2
    /\ \A t \in ShutdownCallers : shutdown_pc[t] = "done"
    /\ shutdown_wakes = 1

\* ----------------------------------------------------------------------- C8
\* C8: a run of ProcessOutboundQueue calls OutboundQueued() once on every
\* connection it queued at least one call of the batch on, however many
\* calls share the connection, and on no other connection; a call whose
\* FindOrStartConnection failed is queued on no connection.
QueuedOn(k) ==
    {c \in Calls :
        /\ Len(outcomes'[c]) = Len(outcomes[c]) + 1
        /\ outcomes'[c][Len(outcomes'[c])].kind = "Queued"
        /\ outcomes'[c][Len(outcomes'[c])].conn = k}

OutboundQueuedOncePerConnection ==
    [][\A k \in 1..Len(conns') :
         conns'[k].outbound_queued =
            (IF k <= Len(conns) THEN conns[k].outbound_queued ELSE 0)
              + (IF QueuedOn(k) # {} THEN 1 ELSE 0)]_vars

\* Two calls were queued on one connection by one flush, which called
\* OutboundQueued() once.
TwoCallsOneOutboundQueued ==
    \E k \in 1..Len(conns) :
      /\ conns[k].outbound_queued = 1
      /\ Cardinality({c \in Calls :
                         /\ Len(outcomes[c]) = 1
                         /\ outcomes[c][1].kind = "Queued"
                         /\ outcomes[c][1].conn = k}) >= 2

\* ----------------------------------------------------------------------- C9
\* C9: client_conns_ holds one connection per ConnectionId.  The entry of an
\* id is the only client connection made for the id that was not shut down,
\* and there is none when the id has no entry; no connection is stored under
\* two ids; a step replaces no entry by another connection and makes a
\* connection only for an id that has no entry; a call is queued on the entry
\* of its id.
LiveClientConnections(id) ==
    {k \in 1..Len(conns) :
        /\ conns[k].direction = "CLIENT"
        /\ conns[k].remote = id.remote
        /\ conns[k].creds = id.creds
        /\ conns[k].idx = id.idx
        /\ conns[k].shutdowns = <<>>}

OneConnectionPerId ==
    /\ [](\A id \in ConnectionIds :
            LiveClientConnections(id) =
               (IF client_conns_[id] = NullConn THEN {}
                                                ELSE {client_conns_[id]}))
    /\ [](\A id1, id2 \in ConnectionIds :
            (client_conns_[id1] # NullConn
               /\ client_conns_[id1] = client_conns_[id2]) => id1 = id2)
    /\ [][/\ \A id \in ConnectionIds :
               client_conns_[id] # NullConn =>
                  client_conns_'[id] \in {client_conns_[id], NullConn}
          /\ \A k \in (Len(conns) + 1)..Len(conns') :
               conns'[k].direction = "CLIENT" =>
                  client_conns_[ConnectionId(conns'[k].idx)] = NullConn
          /\ \A id \in ConnectionIds :
               \A c \in QueuedOn(client_conns_'[id]) : call_conn_id[c] = id
          /\ \A c \in Calls, k \in 1..Len(conns') :
               c \in QueuedOn(k) => client_conns_'[call_conn_id[c]] = k]_vars

\* Calls to all the indices of the remote: as many entries as indices, all
\* of them different connections.
EntryForEveryIndex ==
    /\ \A id \in ConnectionIds : client_conns_[id] # NullConn
    /\ Cardinality({client_conns_[id] : id \in ConnectionIds})
          = NumConnectionsToServer

\* ---------------------------------------------------------------------- C10
\* C10: a timer tick of a reactor that is not stopping sets cur_time_, shuts
\* down with a NetworkError and removes from server_conns_ the connections
\* that are Idle() and whose last activity is more than the keep-alive time
\* before cur_time_, and only these; every other server connection stays in
\* server_conns_ as it is; client_conns_ is not changed.
IdleScanReapsExactly ==
    [][(TimerHandler(FALSE) /\ ~stopping_) =>
          /\ client_conns_' = client_conns_
          /\ cur_time_' = now
          /\ Len(conns') = Len(conns)
          /\ Range(server_conns_') \subseteq Range(server_conns_)
          /\ \A k \in Range(server_conns_) :
                IF conns[k].idle
                     /\ cur_time_' > conns[k].last_activity + KeepAlive
                  THEN /\ k \notin Range(server_conns_')
                       /\ conns'[k].shutdowns =
                             Append(conns[k].shutdowns,
                                    "NetworkError: connection timed out")
                  ELSE /\ k \in Range(server_conns_')
                       /\ conns'[k] = conns[k]]_vars

\* A server connection was reaped by the first tick that found it idle for
\* more than the keep-alive time.
ReapedAfterKeepAlive ==
    \E k \in 1..Len(conns) :
      /\ ~stopping_
      /\ conns[k].direction = "SERVER"
      /\ k \notin Range(server_conns_)
      /\ conns[k].shutdowns = <<"NetworkError: connection timed out">>
      /\ cur_time_ = conns[k].last_activity + KeepAlive + 1

\* ---------------------------------------------------------------------- C11
\* C11: a connection that is in server_conns_ or client_conns_ was never shut
\* down: every action of the reactor that shuts a connection down leaves it
\* in neither table; and the reactor shuts no connection down twice.
TablesHoldLiveConnections ==
    /\ \A k \in Range(server_conns_) : conns[k].shutdowns = <<>>
    /\ \A id \in ConnectionIds :
          client_conns_[id] # NullConn =>
             conns[client_conns_[id]].shutdowns = <<>>
    /\ \A k \in 1..Len(conns) : Len(conns[k].shutdowns) <= 1

\* RegisterConnection left in server_conns_ the connection it had destroyed
\* because the negotiation could not be submitted.
DestroyedConnectionRegistered ==
    \E k \in Range(server_conns_) :
      /\ ~stopping_
      /\ conns[k].direction = "SERVER"
      /\ Len(conns[k].shutdowns) = 1
      /\ conns[k].shutdowns[1] \in SubmitResults \ {"OK"}


\* ---------------------------------------------------------------------- C12
\* C12: outbound_queue_ takes a push exactly when outbound_queue_stopped_ is
\* false.  Once the flag is set it stays set and outbound_queue_ is empty from
\* then on; a QueueOutboundCall that finds the flag set pushes nothing,
\* submits no flush task, and hands the call Transferred(Aborted) before it
\* returns.
StoppedQueueRefusesCalls ==
    [][ /\ outbound_queue_stopped_ =>
             outbound_queue_stopped_' /\ outbound_queue_ = <<>>
                                      /\ outbound_queue_' = <<>>
        /\ \A c \in Calls :
             /\ call_pc[c] = "new" /\ call_pc'[c] # "new" =>
                  IF outbound_queue_stopped_
                    THEN /\ call_pc'[c] = "closing"
                         /\ outbound_queue_' = outbound_queue_
                         /\ pending_tasks_' = pending_tasks_
                         /\ submitted' = submitted
                         /\ outcomes' = outcomes
                    ELSE outbound_queue_' = Append(outbound_queue_, c)
             /\ call_pc[c] = "closing" /\ call_pc'[c] # "closing" =>
                  /\ call_pc'[c] = "done"
                  /\ outbound_queue_' = <<>>
                  /\ pending_tasks_' = pending_tasks_
                  /\ submitted' = submitted
                  /\ async_sent' = async_sent
                  /\ Len(outcomes'[c]) = Len(outcomes[c]) + 1
                  /\ outcomes'[c][Len(outcomes'[c])].kind = "Transferred"
                  /\ outcomes'[c][Len(outcomes'[c])].status = ShutdownError(TRUE)
             /\ call_pc[c] = "closing" => outbound_queue_stopped_
      ]_vars

\* A call was refused by the stopped queue after another had been queued and
\* flushed: it returned with Transferred(Aborted) from QueueOutboundCall.
CallRefusedByStoppedQueue ==
    \E c \in Calls, b \in Calls :
      /\ b # c
      /\ call_pc[c] = "done"
      /\ outbound_queue_stopped_
      /\ Len(outcomes[c]) = 1
      /\ outcomes[c][1].by = "QueueOutboundCall"
      /\ outcomes[c][1].status = ShutdownError(TRUE)
      /\ Len(outcomes[b]) = 1
      /\ outcomes[b][1].by # "QueueOutboundCall"


\* ---------------------------------------------------------------------- C13
\* The handlers the event loop runs on the reactor thread.
OnReactorThread ==
    \/ ReactorThread
    \/ \E d \in DelayedTasks, error \in BOOLEAN : DelayedTaskTimerHandler(d, error)

\* The state that only the reactor thread may change: the connection tables,
\* the waiting list, scheduled_tasks_, the scratch buffers, cur_time_,
\* stopping_, and the timer watchers started on the reactor's loop.
ReactorLocalState ==
    <<stopping_, client_conns_, server_conns_, waiting_conns_, scheduled_tasks_,
      async_handler_tasks_, processing_outbound_queue_, processing_connections_,
      cur_time_, timer_active>>

\* C13: every step that changes the reactor-local state is a step of a handler
\* running on the reactor thread; a thread that calls RegisterInboundSocket,
\* QueueOutboundCall, Shutdown or DelayedTask::Abort changes none of it itself.
ThreadConfinement ==
    [][ReactorLocalState' # ReactorLocalState => OnReactorThread]_vars

\* DelayedTask::Abort returned on its caller's thread after it had stopped the
\* timer that Run started on the reactor's loop.
TimerStoppedOffThread ==
    \E a \in Aborters :
      /\ aborter_pc[a].pc = "done"
      /\ func_calls[aborter_pc[a].task] = <<"Cancelled">>
      /\ task_runs[DelayedTask(aborter_pc[a].task)] = 1
      /\ aborter_pc[a].task \in scheduled_tasks_
      /\ ~timer_active[aborter_pc[a].task]


\* ---------------------------------------------------------------------- C14
\* The tasks that were pushed and not yet run: what is left of the pass that
\* AsyncHandler is running, then pending_tasks_.
AcceptedNotRun ==
    (IF next_task > 0
       THEN SubSeq(async_handler_tasks_, next_task, Len(async_handler_tasks_))
       ELSE <<>>) \o pending_tasks_

\* C14: tasks are run in the order in which ScheduleReactorTask pushed them: a
\* push puts the task behind every task not yet run, the task that is run is
\* the oldest one not yet run, and nothing else takes a task out except the
\* shutdown of a closing reactor.  A pass of AsyncHandler runs the tasks of
\* its own drain only: a task pushed during the pass stays in pending_tasks_
\* until a later AsyncHandler drains it.
TasksRunInPushOrder ==
    [][ /\ IF task_runs' # task_runs
             THEN /\ AcceptedNotRun # <<>>
                  /\ task_runs' = [task_runs EXCEPT ![Head(AcceptedNotRun)] = @ + 1]
                  /\ AcceptedNotRun' = Tail(AcceptedNotRun)
                  /\ next_task > 0
                  /\ Head(AcceptedNotRun) = async_handler_tasks_[next_task]
             ELSE IF submitted' # submitted
               THEN \E t \in Tasks :
                       /\ submitted' = [submitted EXCEPT ![t] = @ + 1]
                       /\ AcceptedNotRun' =
                             IF closing_ THEN AcceptedNotRun
                                         ELSE Append(AcceptedNotRun, t)
                       /\ async_handler_tasks_' = async_handler_tasks_
                       /\ next_task' = next_task
               ELSE \/ AcceptedNotRun' = AcceptedNotRun
                    \/ closing_ /\ stopping_' /\ AcceptedNotRun' = <<>>
        /\ next_task > 0 /\ next_task' > 0 =>
              /\ async_handler_tasks_' = async_handler_tasks_
              /\ next_task' \in {next_task, next_task + 1}
        /\ next_task = 0 /\ next_task' > 0 =>
              /\ next_task' = 1
              /\ async_handler_tasks_' = pending_tasks_
              /\ pending_tasks_' = <<>>
      ]_vars

\* A task was pushed while AsyncHandler was running the tasks of a drain: it
\* waits in pending_tasks_ behind the task of the pass that is not yet run.
TaskPushedDuringPass ==
    /\ next_task > 0
    /\ pending_tasks_ # <<>>
    /\ Len(AcceptedNotRun) = 2
    /\ AcceptedNotRun[1] = async_handler_tasks_[next_task]
    /\ AcceptedNotRun[2] = pending_tasks_[1]
    /\ task_runs[pending_tasks_[1]] = 0


\* ---------------------------------------------------------------------- C15
\* Connection k was shut down by ShutdownInternal and its context does not
\* yet report ReadyToStop().
StoppedNotReady(k) ==
    /\ ShutdownError(FALSE) \in Range(conns[k].shutdowns)
    /\ ~conns[k].ready

\* C15: the loop is broken only where closing_ and stopping_ are true and
\* waiting_conns_ is empty, by a handler of the reactor that found every
\* waiting connection ready; a connection that ShutdownInternal shut down
\* while its context was not ready is in waiting_conns_, and the loop runs,
\* until the context reports ReadyToStop().
LoopRunsWhileConnectionsWait ==
    /\ [](loop_broken => closing_ /\ stopping_ /\ waiting_conns_ = <<>>)
    /\ [](\A k \in 1..Len(conns) :
             StoppedNotReady(k) => k \in Range(waiting_conns_) /\ ~loop_broken)
    /\ [][ /\ loop_broken => loop_broken'
           /\ loop_broken' # loop_broken =>
                /\ closing_ /\ stopping_'
                /\ waiting_conns_' = <<>>
                /\ \A k \in Range(waiting_conns_) : conns[k].ready
                /\ UNCHANGED producerVars
           /\ \A k \in Range(waiting_conns_) :
                k \notin Range(waiting_conns_') => conns[k].ready
         ]_vars

\* ShutdownInternal has run and a connection whose context is not ready is
\* waiting: the loop is still running.
ConnectionHoldsLoop ==
    /\ stopping_
    /\ ~loop_broken
    /\ \E k \in Range(waiting_conns_) : StoppedNotReady(k)


\* ---------------------------------------------------------------------- C16
\* C16: once a thread has called Shutdown (closing_ is set), the reactor runs
\* ShutdownInternal (stopping_ is set) and then breaks its loop, whatever
\* tasks, calls and connections were pending, provided the loop keeps
\* dispatching its handlers and every context becomes ready to stop.
ShutdownBreaksLoop ==
    /\ closing_ ~> stopping_
    /\ closing_ ~> loop_broken

\* The loop was broken after ShutdownInternal had failed a queued call and
\* shut down a registered server connection.
LoopBrokenAfterDraining ==
    /\ loop_broken
    /\ \E c \in Calls :
         \E i \in 1..Len(outcomes[c]) : outcomes[c][i].by = "ShutdownInternal"
    /\ \E k \in 1..Len(conns) :
         /\ conns[k].direction = "SERVER"
         /\ ShutdownError(FALSE) \in Range(conns[k].shutdowns)


\* ---------------------------------------------------------------------- C17
\* C17: when RegisterConnection runs for an inbound connection, either the
\* negotiation was submitted and the connection is appended to server_conns_,
\* or the submission failed, the connection was destroyed with that status
\* and it is not in server_conns_ afterwards.
RegisterConnectionAppendsOnSuccess ==
    [][ \A s \in InboundSockets :
          task_runs'[RegisterTask(s)] # task_runs[RegisterTask(s)] =>
             IF conns'[inbound_conn[s]].shutdowns = <<>>
               THEN server_conns_' = Append(server_conns_, inbound_conn[s])
               ELSE /\ conns'[inbound_conn[s]].shutdowns[1] \in SubmitResults \ {"OK"}
                    /\ inbound_conn[s] \notin Range(server_conns_')
      ]_vars


\* ---------------------------------------------------------------------- C18
\* C18: the CHECK(erased) of DestroyConnection holds.  Whenever
\* CompleteConnectionNegotiation destroys a CLIENT connection, because its
\* negotiation failed or its socket could not be made non-blocking, the
\* connection is the value of client_conns_ under its remote, its credentials
\* and some index, and after the call no entry of client_conns_ refers to it.
DestroyFindsClientConnection ==
    /\ [](\A k \in 1..Len(conns) : ~conns[k].check_failed)
    /\ [][ \A k \in 1..Len(conns) :
             /\ task_runs'[CompleteTask(k)] # task_runs[CompleteTask(k)]
             /\ conns[k].direction = "CLIENT"
             /\ conns'[k].shutdowns # conns[k].shutdowns
             => /\ \E i \in 0..(NumConnectionsToServer - 1) :
                     client_conns_[[remote |-> conns[k].remote,
                                    creds |-> conns[k].creds, idx |-> i]] = k
                /\ \A id \in ConnectionIds : client_conns_'[id] # k
         ]_vars

\* CompleteConnectionNegotiation destroyed a client connection whose
\* negotiation had failed: it was shut down with that status and unlinked.
FailedClientConnectionDestroyed ==
    \E k \in 1..Len(conns) :
      /\ conns[k].direction = "CLIENT"
      /\ task_runs[CompleteTask(k)] = 1
      /\ conns[k].shutdowns = <<"NetworkError: negotiation failed">>
      /\ \A id \in ConnectionIds : client_conns_[id] # k


\* ---------------------------------------------------------------------- C19
\* Connection k is in the table of its direction.
InTable(k) ==
    \/ k \in Range(server_conns_)
    \/ \E id \in ConnectionIds : client_conns_[id] = k

Occurrences(s, t) == Cardinality({i \in 1..Len(s) : s[i] = t})

\* The flush task is submitted only by a QueueOutboundCall whose push made
\* outbound_queue_ go from empty to non-empty.
FlushSubmittedOnFirstPush ==
    /\ \A c \in Calls :
         /\ call_pc'[c] = "schedule" /\ call_pc[c] # "schedule" =>
               outbound_queue_ = <<>> /\ outbound_queue_' = <<c>>
         /\ Len(outbound_queue_') > Len(outbound_queue_) /\ outbound_queue_ # <<>> =>
               call_pc'[c] # "schedule" \/ call_pc[c] = "schedule"
    /\ submitted'[FlushTask] # submitted[FlushTask] =>
         \E c \in Calls : call_pc[c] = "schedule" /\ call_pc'[c] # "schedule"

\* While the reactor is open no call waits in outbound_queue_ without a flush
\* on its way: pending, being submitted by the thread whose push found the
\* queue empty, or drained and about to run.
FlushOnItsWay ==
    ~closing_ /\ outbound_queue_ # <<>> =>
       \/ FlushTask \in Range(pending_tasks_)
       \/ \E c \in Calls : call_pc[c] = "schedule"
       \/ /\ next_task > 0
          /\ \E i \in next_task..Len(async_handler_tasks_) :
                async_handler_tasks_[i] = FlushTask

\* C20: the flush task is submitted only on a push onto an empty queue, it is
\* at most once in pending_tasks_ plus async_handler_tasks_, and an open
\* reactor with a call in outbound_queue_ has a flush on its way.
FlushTaskQueuedOnce ==
    /\ [][FlushSubmittedOnFirstPush]_vars
    /\ [](Occurrences(pending_tasks_, FlushTask)
            + Occurrences(async_handler_tasks_, FlushTask) <= 1)
    /\ []FlushOnItsWay

\* The amended statement: the flush task is at most once among pending_tasks_
\* and the tasks of async_handler_tasks_ that were not yet run.
FlushTaskWaitingOnce ==
    /\ [][FlushSubmittedOnFirstPush]_vars
    /\ [](Occurrences(AcceptedNotRun, FlushTask) <= 1)
    /\ []FlushOnItsWay

\* The flush task that was run is still in async_handler_tasks_, behind it a
\* task not yet run, and the flush task is in pending_tasks_ again for a call
\* pushed onto the emptied queue.
FlushResubmittedDuringPass ==
    /\ next_task > 1
    /\ async_handler_tasks_[1] = FlushTask
    /\ FlushTask \in Range(pending_tasks_)
    /\ outbound_queue_ # <<>>


\* ---------------------------------------------------------------------- C21
\* The tables AssignOutboundCall works on, as they are now.
CurrentTables ==
    [cc |-> client_conns_, cn |-> conns, oc |-> outcomes,
     pcs |-> processing_connections_]

\* The outcomes call c received beyond the first n.
OutcomesSince(oc, c, n) == SubSeq(oc[c], n + 1, Len(oc[c]))

\* AssignOutboundCall for a queued call c under the answers e of the system,
\* on the current tables: when no connection is found and none can be started
\* the call gets SetFailed once and client_conns_ is as before; a refusal of
\* the negotiation pool with IllegalState reaches the call as ServiceUnavailable.
FailedAssignLeavesTables(c, e) ==
    LET id == call_conn_id[c]
        r == AssignOutboundCall(c, e, CurrentTables)
        new == OutcomesSince(r.oc, c, Len(outcomes[c]))
        fails == /\ client_conns_[id] = NullConn
                 /\ \/ e.socket # "OK"
                    \/ e.connect \notin {"OK", "EINPROGRESS"}
                    \/ e.submit # "OK"
    IN  /\ Len(new) = 1
        /\ \A b \in Calls \ {c} : r.oc[b] = outcomes[b]
        /\ IF fails
             THEN /\ new[1].kind = "SetFailed"
                  /\ new[1].status # "OK"
                  /\ r.cc = client_conns_
                  /\ r.cn = conns
                  /\ r.pcs = Append(processing_connections_, NullConn)
                  /\ e.socket = "OK" /\ e.connect = "OK" /\ e.submit = "IllegalState" =>
                       new[1].status =
                          "ServiceUnavailable: Client RPC Messenger shutting down"
             ELSE /\ new[1].kind = "Queued"
                  /\ r.cc[id] = new[1].conn
                  /\ r.cc[id] # NullConn

\* C21: a call for which FindOrStartConnection fails gets SetFailed exactly
\* once and leaves client_conns_ as it was; the flush assigns every call of
\* the batch, failed ones or not, and the reactor keeps running.
FailedCallDoesNotStopFlush ==
    /\ [](\A c \in Range(outbound_queue_), e \in ConnectEnvs :
             FailedAssignLeavesTables(c, e))
    /\ [][ task_runs'[FlushTask] # task_runs[FlushTask] =>
             /\ \A c \in Range(outbound_queue_) :
                  /\ Len(outcomes'[c]) = Len(outcomes[c]) + 1
                  /\ outcomes'[c][Len(outcomes'[c])].kind \in {"SetFailed", "Queued"}
                  /\ outcomes'[c][Len(outcomes'[c])].kind = "SetFailed" =>
                       \/ client_conns_'[call_conn_id[c]] = client_conns_[call_conn_id[c]]
                       \/ \E b \in Range(outbound_queue_) \ {c} :
                            /\ call_conn_id[b] = call_conn_id[c]
                            /\ outcomes'[b][Len(outcomes'[b])].kind = "Queued"
                            /\ outcomes'[b][Len(outcomes'[b])].conn
                                  = client_conns_'[call_conn_id[c]]
             /\ outbound_queue_' = <<>>
             /\ processing_outbound_queue_' = <<>>
             /\ loop_broken' = loop_broken /\ stopping_' = stopping_
             /\ \A id \in ConnectionIds :
                  client_conns_[id] # NullConn => client_conns_'[id] = client_conns_[id]
         ]_vars

\* One flush assigned two calls to the same ConnectionId: the first was
\* failed because the negotiation pool refused its connection, the second was
\* queued on a new connection, and the reactor is running.
FailedCallThenQueuedCall ==
    \E c \in Calls, b \in Calls :
      /\ task_runs[FlushTask] = 1
      /\ ~loop_broken /\ ~stopping_
      /\ call_conn_id[c] = call_conn_id[b]
      /\ Len(outcomes[c]) = 1 /\ Len(outcomes[b]) = 1
      /\ outcomes[c][1].kind = "SetFailed"
      /\ outcomes[c][1].status =
            "ServiceUnavailable: Client RPC Messenger shutting down"
      /\ outcomes[b][1].kind = "Queued"
      /\ client_conns_[call_conn_id[b]] = outcomes[b][1].conn


\* ---------------------------------------------------------------------- C22
\* C22: Abort and the timer handler of a DelayedTask are serialized across
\* func_: when a call of DelayedTask::Abort has returned, func_ was invoked
\* and has returned, and no thread is between the done check and func_.
AbortReturnsAfterFunc ==
    \A a \in Aborters :
       aborter_pc[a].pc = "done" =>
          /\ func_calls[aborter_pc[a].task] # <<>>
          /\ \A b \in Aborters :
               ~(aborter_pc[b].pc = "abort_func"
                 /\ aborter_pc[b].task = aborter_pc[a].task)

\* An Abort that lost the done check has returned while the Abort that won it
\* has not invoked func_ yet.
AbortReturnedBeforeFunc ==
    \E a \in Aborters, b \in Aborters :
      /\ aborter_pc[a].pc = "done"
      /\ aborter_pc[b].pc = "abort_func"
      /\ aborter_pc[b].task = aborter_pc[a].task
      /\ done_[aborter_pc[a].task]
      /\ func_calls[aborter_pc[a].task] = <<>>


\* ---------------------------------------------------------------------- C23
\* No callback of ev is made with a lock held, no lock is acquired twice, and
\* every lock is released at the end.
LockFreeCallbacks(ev) ==
    /\ \A i \in 1..Len(ev) :
         /\ ev[i].op = "callback" => Held(ev, i) = {}
         /\ ev[i].op = "acquire" => ev[i].arg \notin Held(ev, i - 1)
    /\ Held(ev, Len(ev)) = {}

Pending(t) == t \in Range(pending_tasks_)

\* Run was called on the task, or Abort with the Aborted status.
RunOrAborted(t) ==
    \/ task_runs[t] > 0
    \/ \E i \in 1..Len(task_aborts[t]) :
          task_aborts[t][i].status = ShutdownError(TRUE)

\* The pass that drains pending_tasks_ takes every task of it: to run it when
\* the drain saw the reactor open, and otherwise it aborts it as Aborted.
DrainTakesEveryTask ==
    (pending_tasks_ # <<>> /\ pending_tasks_' = <<>>)
       => \A t \in Range(pending_tasks_) :
            IF closing_
              THEN /\ Len(task_aborts'[t]) > Len(task_aborts[t])
                   /\ task_aborts'[t][Len(task_aborts'[t])].status
                         = ShutdownError(TRUE)
                   /\ task_runs'[t] = task_runs[t]
              ELSE /\ t \in Range(async_handler_tasks_')
                   /\ task_aborts'[t] = task_aborts[t]

\* C24: no wakeup is lost.  When the event loop dispatches its handlers and
\* the threads that entered the reactor go on, every task pushed into
\* pending_tasks_ is eventually drained, and is then run (the drain saw the
\* reactor open) or aborted as Aborted (the drain saw closing_), however the
\* WakeThread calls and Shutdown interleave with the pushes; and every thread
\* in RunOnReactorThread eventually returns.
NoLostWakeup ==
    /\ \A t \in {FlushTask} \cup {FunctionTask(r) : r \in FunctionTasks} :
          Pending(t) ~> (~Pending(t) /\ RunOrAborted(t))
    /\ [][DrainTakesEveryTask]_vars
    /\ \A r \in FunctionTasks :
          (function_pc[r] \in {"wake", "sched_abort", "wait"})
             ~> (function_pc[r] = "done")

\* Two threads returned from RunOnReactorThread after their tasks were pushed:
\* the function of one was run, the task of the other was aborted as Aborted
\* by the pass that saw closing_.
CallerRunAndCallerAborted ==
    \E r \in FunctionTasks, q \in FunctionTasks :
       /\ function_pc[r] = "done" /\ status_(r) = "function"
       /\ function_pc[q] = "done" /\ status_(q) = ShutdownError(TRUE)


=============================================================================
